---------------------------- MODULE Spec2Model ----------------------------
(***************************************************************************)
(* NuGatewayV2: the serial poll layer of the gateway.                      *)
(*                                                                         *)
(*   src/modbus_reader.py    ModbusReader: calculate_crc, verify_crc,       *)
(*                           read_registers, read_bms_data, read_*_data,    *)
(*                           read_all_devices                               *)
(*   src/nubank_complete.py  ModbusReader: calculate_crc, read_registers,   *)
(*                           read_bms_full, read_*, read_all                *)
(*                                                                         *)
(* Bytes are integers 0..255 and byte strings are sequences.  Python        *)
(* indexes from 0 and TLA+ from 1: At(buf, i) is Python's buf[i].           *)
(* Physical quantities keep the integer the device transmitted: cell        *)
(* voltages in millivolts (the code divides by 1000), pack voltage and      *)
(* current in hundredths (the code divides by 100).                         *)
(***************************************************************************)
EXTENDS Integers, Sequences, FiniteSets, TLC

VARIABLES
    impl,         \* which source file's ModbusReader is running
    \* ---- the shared serial link and one read_registers exchange
    rr_pc,        \* "idle": no call in progress; "sent": request written, read pending
    rr_req,       \* arguments of the call in progress (or of the last call)
    tx,           \* bytes of the last serial.write
    unanswered,   \* requests on the bus the addressed device has not answered yet
    wire,         \* answers a device has started to send, not yet in the input buffer
    in_buf,       \* the serial input buffer: records [b |-> byte, from |-> sender]
    response,     \* what serial.read returned to the last finished call
    rr_result,    \* what the last finished call returned and logged
    port,         \* the calls made on self.serial since the last exchange began
    \* ---- one read_bms_data / read_bms_full call
    bms_pc,       \* the step the call is at
    bms_cmds,     \* the command codes bms_send has written so far in this call
    series_count, \* the local series_count
    bms_rx,       \* what the last bms_send returned
    bms_locals,   \* the locals of the real-time branch (payload, cells, locator)
    bms_data,     \* the dict being filled
    bms_ret,      \* what the call returned
    \* ---- one read_all_devices / read_all call
    cyc_pc,       \* the device reader the call is in
    cyc_reads,    \* read_registers calls the current device reader has made
    dev_data,     \* the current device reader's dict
    results,      \* the aggregate dict
    issued,       \* every serial.write of this cycle, in order
    dev_ok,       \* devices of which a whole frame has arrived in this cycle
    fate,         \* how each register device behaves during this cycle
    \* ---- observers
    heard,        \* what every serial.read of a poll cycle returned, in order
    memo,         \* an earlier poll cycle of the same reader object, kept for comparison
    probe,        \* a codec function applied to a byte string: input and outcome
    \* ---- the MQTT side: MQTTClient (mqtt_client) or MQTTPublisher (nubank_complete)
    mq_class,     \* which of the two classes the object is
    connected,    \* self.connected
    pub_pc,       \* "idle", "checked" (past the connected test) or "returned"
    pub_data,     \* the data argument of the publish call in progress (or the last)
    pub_ret,      \* what the last publish call returned
    handed,       \* every self.client.publish call so far: topic, payload, outcome
    last_callback, \* the last broker callback: "none", "on_connect" (rc 0),
                  \* "on_connect_refused" (another rc) or "on_disconnect"
    \* ---- MQTTClient._on_message
    relay_callback, \* self.relay_callback: "none" or what the callable returns
    rx_msg,       \* the message being handled (or the last one handled)
    relays_left,  \* multi-relay command: the entries the for loop has not reached
    invoked,      \* the calls of relay_callback made for rx_msg: <<name, state>>
    \* ---- NuBankService (nubank_complete)
    svc_pc,       \* the statement of run() the main thread is at
    running,      \* self.running
    now,          \* what datetime.now() reads, in hours
    start_time,   \* self.start_time, in hours
    player_process, \* self.player_process: "none", "alive" or "exited"
    relay_pins,   \* the three relay outputs: "off", "on", or "partial" (some on)
    shutdowns,    \* how many times shutdown() has been entered
    thr_pc,       \* the statement of modbus_mqtt_loop the daemon thread is at
    serial,       \* self.modbus.serial: "none", "open" or "closed"
    last_read,    \* modbus_mqtt_loop's last_read: 0, or 1 once a cycle was saved
    alive_players, \* how many player processes the service started are alive
    launches      \* how many player processes the service has started

linkVars == <<rr_pc, rr_req, tx, unanswered, wire, in_buf, response, rr_result, port>>

bmsVars == <<bms_pc, bms_cmds, series_count, bms_rx, bms_locals, bms_data, bms_ret>>

cycVars == <<cyc_pc, cyc_reads, dev_data, results, issued, dev_ok, fate>>

obsVars == <<heard, memo, probe>>

mqttVars == <<mq_class, connected, pub_pc, pub_data, pub_ret, handed, last_callback>>

relayVars == <<relay_callback, rx_msg, relays_left, invoked>>

\* The Modbus/MQTT thread and the serial port it shares with shutdown()
thrVars == <<thr_pc, serial, last_read>>

svcVars == <<svc_pc, running, now, start_time, player_process, relay_pins, shutdowns,
             thrVars, alive_players, launches>>

\* The objects around the reader
appVars == <<mqttVars, relayVars, svcVars>>

\* What a step of the service leaves alone
notService == <<impl, linkVars, bmsVars, cycVars, obsVars, mqttVars, relayVars>>

\* What a publish step leaves alone
notPublish == <<impl, linkVars, bmsVars, cycVars, obsVars, relayVars, svcVars>>

\* What the handling of a message leaves alone
notRelay == <<impl, linkVars, bmsVars, cycVars, obsVars, mqttVars, svcVars>>

vars == <<impl, linkVars, bmsVars, cycVars, obsVars, appVars>>

\* What a step of one component leaves alone in the others
notLink == <<bmsVars, cycVars, obsVars, appVars>>

notBms == <<cycVars, obsVars, appVars>>

-----------------------------------------------------------------------------
(* Python list and bytes helpers *)

At(buf, i) == buf[i + 1]

Min(a, b) == IF a < b THEN a ELSE b

Max(a, b) == IF a > b THEN a ELSE b

\* buf[a:b] for 0 <= a, with Python's clamping to the length
Slice(buf, a, b) == SubSeq(buf, a + 1, Min(b, Len(buf)))

\* buf[a:]
SliceFrom(buf, a) == SubSeq(buf, a + 1, Len(buf))

\* buf[:-1]
DropLast(buf) == SubSeq(buf, 1, Len(buf) - 1)

RECURSIVE SumSeq(_)
SumSeq(s) == IF s = <<>> THEN 0 ELSE s[1] + SumSeq(Tail(s))

\* a ^ b.  (The halves are bound as elements of one-element sets: TLC
\* computes each once.)
RECURSIVE BitXor(_, _)
BitXor(a, b) ==
    IF a = 0 THEN b
    ELSE IF b = 0 THEN a
    ELSE CHOOSE out \in { ((a + b) % 2) + 2 * BitXor(ah, bh) :
                            ah \in { a \div 2 }, bh \in { b \div 2 } } : TRUE

\* v & 0x80 on a byte
HasBit7(v) == (v \div 128) % 2 = 1

\* The implementations
MR == "modbus_reader"

NB == "nubank_complete"

Impls == {MR, NB}

-----------------------------------------------------------------------------
(* CRC engine: calculate_crc, verify_crc *)

CRC_INIT == 65535

CRC_POLY == 40961

crc_shift(crc) ==
    IF crc % 2 = 1 THEN BitXor(crc \div 2, CRC_POLY) ELSE crc \div 2

\* for _ in range(8): one shift per bit.  (Each intermediate value is bound
\* as the element of a one-element set, so that TLC computes it once, before
\* it recurses.)
RECURSIVE crc_bits(_, _)
crc_bits(crc, n) ==
    IF n = 0 THEN crc
    ELSE CHOOSE out \in { crc_bits(shifted, n - 1) : shifted \in { crc_shift(crc) } } :
            TRUE

\* for byte in data: crc ^= byte, then the eight shifts
RECURSIVE crc_fold(_, _)
crc_fold(crc, data) ==
    IF data = <<>> THEN crc
    ELSE CHOOSE out \in
            { crc_fold(after, Tail(data)) :
                after \in { crc_bits(mixed, 8) : mixed \in { BitXor(crc, Head(data)) } } } :
            TRUE

calculate_crc(data) ==
    LET crc == crc_fold(CRC_INIT, data)
    IN  <<crc % 256, (crc \div 256) % 256>>

\* A verification that compares the low CRC byte only
verify_crc_low(data) ==
    IF Len(data) < 3 THEN FALSE
    ELSE data[Len(data) - 1] = calculate_crc(SubSeq(data, 1, Len(data) - 2))[1]

verify_crc(data) ==
    IF Len(data) < 3 THEN FALSE
    ELSE SubSeq(data, Len(data) - 1, Len(data))
            = calculate_crc(SubSeq(data, 1, Len(data) - 2))

-----------------------------------------------------------------------------
(* Standard register reader: read_registers *)

\* request = [slave_id, function_code, addr hi, addr lo, count hi, count lo] + crc
\* A request with the CRC appended high byte first
build_request_crc_be(slave_id, start_address, count, function_code) ==
    LET request == << slave_id, function_code,
                      (start_address \div 256) % 256, start_address % 256,
                      (count \div 256) % 256, count % 256 >>
        crc == calculate_crc(request)
    IN  request \o << crc[2], crc[1] >>

build_request(slave_id, start_address, count, function_code) ==
    LET request == << slave_id, function_code,
                      (start_address \div 256) % 256, start_address % 256,
                      (count \div 256) % 256, count % 256 >>
    IN  request \o calculate_crc(request)

expected_length(count) == 3 + (count * 2) + 2

\* for i in range(0, len(data_bytes), 2): if i + 1 < len(data_bytes): ...
registers_of(data_bytes) ==
    [k \in 1..(Len(data_bytes) \div 2) |->
        At(data_bytes, 2 * (k - 1)) * 256 + At(data_bytes, 2 * (k - 1) + 1)]

\* What a call hands back: ret/regs are the return value (None or the register
\* list), log is the message the logger receives, with the exception code it
\* prints (0 in the other messages); a caller sees ret and regs only.
Fail(msg) == [ret |-> "None", regs |-> <<>>, log |-> msg, code |-> 0]

\* exception_code = response[2] if len(response) > 2 else 0
device_exception(resp) ==
    [Fail("DeviceException") EXCEPT !.code = IF Len(resp) > 2 THEN At(resp, 2) ELSE 0]

\* byte_count = response[2]; data_bytes = response[3:3+byte_count]
decode_registers(resp) ==
    [ret |-> "regs", regs |-> registers_of(Slice(resp, 3, 3 + At(resp, 2))),
     log |-> "ok", code |-> 0]

\* The checks of mr_parse with the CRC test moved before the exception test
mr_parse_crc_first(resp) ==
    IF resp = <<>> THEN Fail("NoResponse")
    ELSE IF ~verify_crc(resp) THEN Fail("FrameCorrupt")
    ELSE IF Len(resp) >= 2 /\ HasBit7(At(resp, 1)) THEN device_exception(resp)
    ELSE IF Len(resp) < 5 THEN Fail("FrameTooShort")
    ELSE decode_registers(resp)

\* src/modbus_reader.py: the checks between serial.read and the decoding
mr_parse(resp) ==
    IF resp = <<>> THEN Fail("NoResponse")
    ELSE IF Len(resp) >= 2 /\ HasBit7(At(resp, 1)) THEN device_exception(resp)
    ELSE IF ~verify_crc(resp) THEN Fail("FrameCorrupt")
    ELSE IF Len(resp) < 5 THEN Fail("FrameTooShort")
    ELSE decode_registers(resp)

\* src/nubank_complete.py: if not response or len(response) < 5: return None
nb_parse(resp) ==
    IF resp = <<>> \/ Len(resp) < 5 THEN Fail("none")
    ELSE decode_registers(resp)

parse_response(imp, resp) == IF imp = MR THEN mr_parse(resp) ELSE nb_parse(resp)

\* One call on self.serial: the method, the size asked for (reads) or handed
\* over (writes), and the bytes written or returned
PortCall(op, size, data) == [op |-> op, size |-> size, data |-> data]

port_read(size, data) == PortCall("read", size, data)

\* An exchange that writes without clearing the buffers
port_open_unflushed(request) == << PortCall("write", Len(request), request) >>

\* reset_input_buffer(); reset_output_buffer(); write(request)
port_open(request) ==
    << PortCall("reset_input_buffer", 0, <<>>),
       PortCall("reset_output_buffer", 0, <<>>),
       PortCall("write", Len(request), request) >>

-----------------------------------------------------------------------------
(* BMS protocol codec: bms_send, u16_le, i16_le *)

\* A request whose checksum leaves out the address byte
bms_request_sum_from_1(cmd, rw, data) ==
    LET frame == <<61, 1, 2, cmd, rw, 0, Len(data)>> \o data
    IN  frame \o << SumSeq(Tail(frame)) % 256 >>

\* frame = [0x3D, 0x01, 0x02, cmd, rw, 0x00, len(data)] + data; tx = frame + [chk]
bms_request(cmd, rw, data) ==
    LET frame == <<61, 1, 2, cmd, rw, 0, Len(data)>> \o data
    IN  frame \o << SumSeq(frame) % 256 >>

\* Drain reads after the initial read: for _ in range(3)
BMS_DRAIN_READS == 3

\* reads[1] is what the initial serial.read returns and reads[2..] what the
\* drain reads would return; a drain read that yields nothing ends the loop
RECURSIVE bms_drain(_, _, _)
bms_drain(rx, reads, k) ==
    IF k > 1 + BMS_DRAIN_READS \/ k > Len(reads) THEN rx
    ELSE IF reads[k] = <<>> THEN rx
    ELSE bms_drain(rx \o reads[k], reads, k + 1)

bms_receive(reads) == bms_drain(reads[1], reads, 2)

\* The drain loop without its "else: break"
RECURSIVE bms_drain_log_no_break(_, _)
bms_drain_log_no_break(reads, k) ==
    IF k > 1 + BMS_DRAIN_READS \/ k > Len(reads) THEN <<>>
    ELSE << reads[k] >> \o bms_drain_log_no_break(reads, k + 1)

\* The drain loop as "while extra:" in place of "for _ in range(3)"
RECURSIVE bms_drain_log_no_cap(_, _)
bms_drain_log_no_cap(reads, k) ==
    IF k > Len(reads) THEN <<>>
    ELSE IF reads[k] = <<>> THEN << reads[k] >>
    ELSE << reads[k] >> \o bms_drain_log_no_cap(reads, k + 1)

\* What the drain reads from the k-th on return, one entry per read made
RECURSIVE bms_drain_log(_, _)
bms_drain_log(reads, k) ==
    IF k > 1 + BMS_DRAIN_READS \/ k > Len(reads) THEN <<>>
    ELSE IF reads[k] = <<>> THEN << reads[k] >>
    ELSE << reads[k] >> \o bms_drain_log(reads, k + 1)

\* What every serial.read of one bms_send returns: the initial read, then
\* the drain reads
bms_read_log(reads) == << reads[1] >> \o bms_drain_log(reads, 2)

\* serial.read(self.serial.in_waiting or 255)
BMS_READ_SIZE == 255

\* The size a read asks for: the bytes waiting, or 255 when none is
bms_read_size(data) == IF data = <<>> THEN BMS_READ_SIZE ELSE Len(data)

\* The calls of one bms_send on self.serial
bms_port_calls(request, reads) ==
    LET log == bms_read_log(reads)
    IN  port_open(request)
            \o [i \in 1..Len(log) |-> port_read(bms_read_size(log[i]), log[i])]

\* What bms_send returns: ok = FALSE is None
BmsNone(msg) == [ok |-> FALSE, rx |-> <<>>, log |-> msg]

\* A checksum test that lets every frame through
bms_checksum_any(rx) == TRUE

\* A checksum test on the low seven bits
bms_checksum_low7(rx) == SumSeq(DropLast(rx)) % 128 = rx[Len(rx)] % 128

\* if (sum(rx[:-1]) & 0xFF) != rx[-1]
bms_checksum_ok(rx) == SumSeq(DropLast(rx)) % 256 = rx[Len(rx)]

bms_accept(rx) ==
    IF rx = <<>> THEN BmsNone("NoResponse")
    ELSE IF ~bms_checksum_ok(rx) THEN BmsNone("ChecksumInvalid")
    ELSE [ok |-> TRUE, rx |-> rx, log |-> "ok"]

bms_send(reads) == bms_accept(bms_receive(reads))

u16_le(buf, i) == At(buf, i) + At(buf, i + 1) * 256

i16_le(buf, i) ==
    LET v == u16_le(buf, i)
    IN  IF v > 32767 THEN v - 65536 ELSE v

-----------------------------------------------------------------------------
(* read_bms_data / read_bms_full: cell count, cells, field locator, MOS *)

DEFAULT_SERIES == 4

MAX_SERIES == 24

\* rx[6:-1]
bms_body(rx) == Slice(rx, 6, Len(rx) - 1)

\* "if rx and len(rx) > 6"
cell_count_usable(ret) == ret.ok /\ Len(ret.rx) > 6

\* d[-1] on an empty d raises IndexError
cell_count_raises(ret) == cell_count_usable(ret) /\ bms_body(ret.rx) = <<>>

\* series_count = d[-1] if 1 <= d[-1] <= 24 else 4
series_count_of(ret) ==
    IF cell_count_usable(ret)
    THEN LET d == bms_body(ret.rx)
             last == d[Len(d)]
         IN  IF 1 <= last /\ last <= MAX_SERIES THEN last ELSE DEFAULT_SERIES
    ELSE DEFAULT_SERIES

\* "if rx and len(rx) > 20"
REALTIME_MIN_LEN == 20

realtime_usable(ret) == ret.ok /\ Len(ret.rx) > REALTIME_MIN_LEN

\* d = rx[6:-1][1:]
realtime_payload(rx) == SliceFrom(bms_body(rx), 1)

\* u16_le(d, i * 2) for i in range(series_count) raises IndexError when a
\* byte of a cell lies beyond the payload
cells_raise(d, sc) == \E i \in 0..(sc - 1) : 2 * i + 1 >= Len(d)

\* cells, in millivolts
cells_of(d, sc) == [k \in 1..sc |-> u16_le(d, 2 * (k - 1))]

\* cells[k] if len(cells) > k else 0.0
cell_or_zero(cells, k) == IF Len(cells) > k THEN At(cells, k) ELSE 0

\* round() of n / q for q > 0.  The code rounds binary floating-point values:
\* off a tie the nearest integer; on a decimal tie the float lies on either
\* side, so both neighbours are possible outcomes
RoundCands(n, q) ==
    LET f == n \div q
        r == n % q
    IN  IF 2 * r < q THEN {f}
        ELSE IF 2 * r > q THEN {f + 1}
        ELSE {f, f + 1}

TOLERANCE == 12

ZERO_RUN_MIN == 16

MIN_SCAN_START == 8

PACK_TAIL == 8

\* start = max(2 * series_count, 8)
scan_start(sc) == Max(2 * sc, MIN_SCAN_START)

\* for i in range(start, len(d)): count zeros; at a non-zero byte after a run
\* of at least 16, base_start = i and stop; otherwise reset the run
RECURSIVE skip_zero_run(_, _, _, _)
skip_zero_run(d, i, zero_run, start) ==
    IF i >= Len(d) THEN start
    ELSE IF At(d, i) = 0 THEN skip_zero_run(d, i + 1, zero_run + 1, start)
    ELSE IF zero_run >= ZERO_RUN_MIN THEN i
    ELSE skip_zero_run(d, i + 1, 0, start)

\* A skip that takes a run of 10 zeros for padding
RECURSIVE skip_short_run(_, _, _, _)
skip_short_run(d, i, zero_run, start) ==
    IF i >= Len(d) THEN start
    ELSE IF At(d, i) = 0 THEN skip_short_run(d, i + 1, zero_run + 1, start)
    ELSE IF zero_run >= 10 THEN i
    ELSE skip_short_run(d, i + 1, 0, start)

base_start_eager(d, start) == skip_short_run(d, start, 0, start)

base_start_of(d, start) == skip_zero_run(d, start, 0, start)

\* pack_idx = None
NoPack == -1

\* for i in range(base_start, len(d) - 8): first i with v_low <= u16 <= v_high
RECURSIVE find_pack_from(_, _, _, _)
find_pack_from(d, i, v_low, v_high) ==
    IF i >= Len(d) - PACK_TAIL THEN NoPack
    ELSE IF v_low <= u16_le(d, i) /\ u16_le(d, i) <= v_high THEN i
    ELSE find_pack_from(d, i + 1, v_low, v_high)

\* A scan that goes on to the last offset where voltage and current can be
\* read
RECURSIVE find_pack_to_end(_, _, _)
find_pack_to_end(d, i, v_guess) ==
    IF i >= Len(d) - 3 THEN NoPack
    ELSE IF v_guess - TOLERANCE <= u16_le(d, i) /\ u16_le(d, i) <= v_guess + TOLERANCE THEN i
    ELSE find_pack_to_end(d, i + 1, v_guess)

\* find_pack with the window one centivolt wider on each side
find_pack_wider(d, base_start, v_guess) ==
    find_pack_from(d, base_start, v_guess - (TOLERANCE + 1), v_guess + (TOLERANCE + 1))

\* find_pack with the window one centivolt narrower on each side
find_pack_narrower(d, base_start, v_guess) ==
    find_pack_from(d, base_start, v_guess - (TOLERANCE - 1), v_guess + (TOLERANCE - 1))

find_pack(d, base_start, v_guess) ==
    find_pack_from(d, base_start, v_guess - TOLERANCE, v_guess + TOLERANCE)

\* cand = d[pack_idx + k] if (pack_idx + k) < len(d) else 255
soc_candidate(d, idx) == IF idx < Len(d) THEN At(d, idx) ELSE 255

\* The value stored when SOC/SOH is not reported or out of range
SOC_UNKNOWN == 0

\* soc = cand if 0 <= cand <= 100 else 0
soc_of(cand) == IF 0 <= cand /\ cand <= 100 THEN cand ELSE SOC_UNKNOWN

\* Pack fields when the marker was found: voltage and current in hundredths
pack_found(d, pack_idx) ==
    [vpack |-> u16_le(d, pack_idx),
     ipack |-> i16_le(d, pack_idx + 2),
     soc |-> soc_of(soc_candidate(d, pack_idx + 6)),
     soh |-> soc_of(soc_candidate(d, pack_idx + 7))]

\* Pack fields when it was not: vpack = round(total_v, 2) (one of vpacks),
\* ipack = 0.0, soc = 0, soh = 0
pack_fallback(vpack) ==
    [vpack |-> vpack, ipack |-> 0, soc |-> SOC_UNKNOWN, soh |-> SOC_UNKNOWN]

\* state = "ON" if rx[7] == 1 else "OFF", when "rx and len(rx) >= 8"
\* A decoder that reports "OFF" for want of a usable response
mos_state_default_off(ret) ==
    IF ret.ok /\ Len(ret.rx) >= 8
    THEN (IF At(ret.rx, 7) = 1 THEN "ON" ELSE "OFF")
    ELSE "OFF"

mos_state(ret) ==
    IF ret.ok /\ Len(ret.rx) >= 8
    THEN (IF At(ret.rx, 7) = 1 THEN "ON" ELSE "OFF")
    ELSE "UNKNOWN"

-----------------------------------------------------------------------------
(* The shared half-duplex link and the devices on it.                       *)
(* A device answers a request it has received at most once, at a time of    *)
(* its choosing: the answer travels on the wire and reaches the input       *)
(* buffer when Deliver fires, which may be after the read that waited for   *)
(* it has timed out.  A burst is delivered whole.                           *)

\* Frames in flight at once
MaxInFlight == 1

Req(s, a, c, f) == [slave |-> s, addr |-> a, count |-> c, fc |-> f]

\* Calls the pollers make: read_mppt_data (PV voltage) and read_env_data
\* (temperature)
Requests == { Req(1, 12366, 1, 4), Req(123, 14, 2, 3) }

\* Register contents of the addressed device, as the data bytes of its answer:
\* MPPT 19.60 V, 5.78 A, 87 %, 13.26 V, -1.50 A; ENV 412.0 ppm, 16.2 C
\* (0x4181999A), 45.25 % (0x42350000); LDR 1234 lux; PIR motion
DeviceData(req) ==
    CASE req.slave = 1 /\ req.addr = 12366 -> <<7, 168>>
      [] req.slave = 1 /\ req.addr = 12367 -> <<2, 66>>
      [] req.slave = 1 /\ req.addr = 12357 -> <<0, 87>>
      [] req.slave = 1 /\ req.addr = 12358 -> <<5, 46>>
      [] req.slave = 1 /\ req.addr = 12359 -> <<255, 106>>
      [] req.slave = 123 /\ req.addr = 8 -> <<67, 206, 0, 0>>
      [] req.slave = 123 /\ req.addr = 14 -> <<65, 129, 153, 154>>
      [] req.slave = 123 /\ req.addr = 16 -> <<66, 53, 0, 0>>
      [] req.slave = 4 -> <<0, 0, 4, 210>>
      [] req.slave = 2 -> <<0, 1>>

WithCrc(body) == body \o calculate_crc(body)

\* Damage the last byte of a frame
Corrupt(frame) ==
    [frame EXCEPT ![Len(frame)] = (frame[Len(frame)] + 1) % 256]

GoodAnswer(req) == WithCrc(<<req.slave, req.fc, 2 * req.count>> \o DeviceData(req))

\* What the addressed device may put on the bus for a request: nothing, a
\* well-formed answer, an answer damaged in transit
Answers(req) == { <<>>, GoodAnswer(req), Corrupt(GoodAnswer(req)) }

Tagged(frame, sender) == [i \in 1..Len(frame) |-> [b |-> frame[i], from |-> sender]]

Bytes(tagged) == [i \in 1..Len(tagged) |-> tagged[i].b]

Senders(tagged) == { tagged[i].from : i \in 1..Len(tagged) }

\* read_registers up to the blocking read: build the request, reset both
\* buffers, write
ReadRegistersSend ==
    /\ rr_pc = "idle"
    /\ \E req \in Requests :
        /\ rr_req' = req
        /\ tx' = build_request(req.slave, req.addr, req.count, req.fc)
        /\ unanswered' = unanswered \cup {req}
    /\ in_buf' = <<>>
    /\ response' = <<>>
    /\ rr_result' = Fail("pending")
    /\ rr_pc' = "sent"
    /\ port' = port_open(tx')
    /\ UNCHANGED <<impl, wire, notLink>>

\* The addressed device answers (an empty answer: it stays silent)
DeviceAnswer ==
    /\ \E req \in unanswered :
        \E frame \in Answers(req) :
            /\ frame # <<>> => Len(wire) < MaxInFlight
            /\ wire' = IF frame = <<>> THEN wire
                       ELSE Append(wire, Tagged(frame, req.slave))
            /\ unanswered' = unanswered \ {req}
    /\ UNCHANGED <<impl, rr_pc, rr_req, tx, in_buf, response, rr_result, port, notLink>>

\* The oldest burst on the wire reaches the UART's input buffer
Deliver ==
    /\ wire # <<>>
    /\ in_buf' = in_buf \o Head(wire)
    /\ wire' = Tail(wire)
    /\ UNCHANGED <<impl, rr_pc, rr_req, tx, unanswered, response, rr_result, port, notLink>>

\* read_registers from serial.read(expected_length) to its return: the read
\* ends with what has arrived when the timeout expires
ReadRegistersRecv ==
    /\ rr_pc = "sent"
    /\ LET n == Min(expected_length(rr_req.count), Len(in_buf))
           got == SubSeq(in_buf, 1, n)
       IN  /\ response' = got
           /\ in_buf' = SubSeq(in_buf, n + 1, Len(in_buf))
           /\ rr_result' = parse_response(impl, Bytes(got))
           /\ port' = Append(port, port_read(expected_length(rr_req.count), Bytes(got)))
    /\ rr_pc' = "idle"
    /\ UNCHANGED <<impl, rr_req, tx, unanswered, wire, notLink>>

LinkInit ==
    /\ rr_pc = "idle"
    /\ rr_req = Req(1, 12366, 1, 4)
    /\ tx = <<>>
    /\ unanswered = {}
    /\ wire = <<>>
    /\ in_buf = <<>>
    /\ response = <<>>
    /\ rr_result = Fail("idle")
    /\ port = <<>>

-----------------------------------------------------------------------------
(* One read_bms_data (modbus_reader) / read_bms_full (nubank_complete) call. *)
(* Each step is one bms_send exchange and the decoding that follows it; the  *)
(* device's bytes are the step's input.                                      *)

EmptyDict == <<>>

NoLocals ==
    [ran |-> FALSE, d |-> <<>>, cells |-> <<>>, total_v |-> 0, v_guess |-> 0,
     start |-> 0, base_start |-> 0, pack_idx |-> NoPack]

BmsIdle ==
    /\ bms_pc = "off"
    /\ bms_cmds = <<>>
    /\ series_count = DEFAULT_SERIES
    /\ bms_rx = BmsNone("idle")
    /\ bms_locals = NoLocals
    /\ bms_data = EmptyDict
    /\ bms_ret = "none yet"

\* bms_send up to its reads: reset both buffers, write the request
BmsWrite(cmd) ==
    /\ in_buf' = <<>>
    /\ tx' = bms_request(cmd, 1, <<>>)
    /\ bms_cmds' = Append(bms_cmds, cmd)
    /\ UNCHANGED <<impl, rr_pc, rr_req, unanswered, wire, response, rr_result>>

\* "except Exception": modbus_reader returns None, nubank_complete returns
\* the dict as it stands
BmsRaise ==
    /\ bms_pc' = "returned"
    /\ bms_ret' = IF impl = MR THEN "None" ELSE "dict"

\* Entry: data = {}
BmsCall ==
    /\ bms_pc \in {"off", "returned"}
    /\ bms_pc' = "cell_count"
    /\ bms_cmds' = <<>>
    /\ series_count' = DEFAULT_SERIES
    /\ bms_rx' = BmsNone("idle")
    /\ bms_locals' = NoLocals
    /\ bms_data' = EmptyDict
    /\ bms_ret' = "running"
    /\ UNCHANGED <<impl, linkVars>>

\* -------- 0x27: cell count
BmsCellCount(Scripts) ==
    /\ bms_pc = "cell_count"
    /\ BmsWrite(39)
    /\ \E reads \in Scripts :
        \E ret \in { bms_send(reads) } :
            /\ bms_rx' = ret
            /\ port' = bms_port_calls(tx', reads)
            /\ IF cell_count_raises(ret)
               THEN /\ BmsRaise
                    /\ UNCHANGED series_count
               ELSE /\ series_count' = series_count_of(ret)
                    /\ bms_pc' = "real_time"
                    /\ UNCHANGED bms_ret
    /\ UNCHANGED <<bms_locals, bms_data>>

\* The keys the real-time branch stores
RealTimeDict(cells, pack, power) ==
    [k \in { "bms_cell_1_voltage", "bms_cell_2_voltage", "bms_cell_3_voltage",
             "bms_cell_4_voltage", "bms_battery_voltage", "bms_battery_current",
             "bms_battery_soc", "bms_battery_soh", "bms_battery_power" } |->
        CASE k = "bms_cell_1_voltage" -> cell_or_zero(cells, 0)
          [] k = "bms_cell_2_voltage" -> cell_or_zero(cells, 1)
          [] k = "bms_cell_3_voltage" -> cell_or_zero(cells, 2)
          [] k = "bms_cell_4_voltage" -> cell_or_zero(cells, 3)
          [] k = "bms_battery_voltage" -> pack.vpack
          [] k = "bms_battery_current" -> pack.ipack
          [] k = "bms_battery_soc" -> pack.soc
          [] k = "bms_battery_soh" -> pack.soh
          [] k = "bms_battery_power" -> power]

\* -------- 0x00: real-time data.  (The locals are bound as elements of
\* one-element sets: TLC computes each once.)
BmsRealTime(Scripts) ==
    /\ bms_pc = "real_time"
    /\ BmsWrite(0)
    /\ \E reads \in Scripts :
        \E ret \in { bms_send(reads) } :
        \E d \in { realtime_payload(ret.rx) } :
            /\ bms_rx' = ret
            /\ port' = bms_port_calls(tx', reads)
            /\ IF ~realtime_usable(ret)
               THEN /\ bms_pc' = "mos_discharge"
                    /\ UNCHANGED <<bms_locals, bms_data, bms_ret>>
               ELSE IF cells_raise(d, series_count)
               THEN /\ BmsRaise
                    /\ UNCHANGED <<bms_locals, bms_data>>
               ELSE \E cells \in { cells_of(d, series_count) } :
                    \E total_v \in { SumSeq(cells) } :
                    \E start \in { scan_start(series_count) } :
                    \E base_start \in { base_start_of(d, start) } :
                        \E v_guess \in RoundCands(total_v, 10) :
                        \E pack_idx \in { find_pack(d, base_start, v_guess) } :
                            \E pack \in (IF pack_idx = NoPack
                                         THEN { pack_fallback(v) : v \in RoundCands(total_v, 10) }
                                         ELSE { pack_found(d, pack_idx) }) :
                            \E power \in RoundCands(pack.vpack * pack.ipack, 100) :
                                /\ bms_locals' =
                                     [ran |-> TRUE, d |-> d, cells |-> cells,
                                      total_v |-> total_v, v_guess |-> v_guess,
                                      start |-> start, base_start |-> base_start,
                                      pack_idx |-> pack_idx]
                                /\ bms_data' = RealTimeDict(cells, pack, power) @@ bms_data
                                /\ bms_pc' = "mos_discharge"
                                /\ UNCHANGED bms_ret
    /\ UNCHANGED series_count

\* -------- 0x2D, 0x2E: MOS status; after the second one, return data
BmsMos(Scripts) ==
    /\ bms_pc \in {"mos_discharge", "mos_charge"}
    /\ LET first == bms_pc = "mos_discharge"
           key == IF first THEN "bms_discharge_mos_status" ELSE "bms_charge_mos_status"
       IN  /\ BmsWrite(IF first THEN 45 ELSE 46)
           /\ \E reads \in Scripts :
                \E ret \in { bms_send(reads) } :
                    /\ bms_rx' = ret
                    /\ port' = bms_port_calls(tx', reads)
                    /\ bms_data' = (key :> mos_state(ret)) @@ bms_data
           /\ bms_pc' = IF first THEN "mos_charge" ELSE "returned"
           /\ bms_ret' = IF first THEN bms_ret ELSE "dict"
    /\ UNCHANGED <<series_count, bms_locals>>

CycleIdle ==
    /\ cyc_pc = "idle"
    /\ cyc_reads = 0
    /\ dev_data = EmptyDict
    /\ results = EmptyDict
    /\ issued = <<>>
    /\ dev_ok = {}
    /\ fate = [dev \in {"mppt", "env", "ldr", "pir"} |-> "ok"]

\* No cycle kept
NoMemo == [kept |-> FALSE, heard |-> <<>>, results |-> EmptyDict, others |-> FALSE]

\* No function applied
NoProbe == [fn |-> "none", input |-> <<>>, framed |-> <<>>, accepted |-> FALSE]

ObsIdle ==
    /\ heard = <<>>
    /\ memo = NoMemo
    /\ probe = NoProbe

\* No MQTT object constructed
MqttIdle ==
    /\ mq_class = "none"
    /\ connected = FALSE
    /\ pub_pc = "idle"
    /\ pub_data = EmptyDict
    /\ pub_ret = FALSE
    /\ handed = <<>>
    /\ last_callback = "none"

NoMessage == [topic |-> "none", payload |-> ""]

\* No message received
RelayIdle ==
    /\ relay_callback = "none"
    /\ rx_msg = NoMessage
    /\ relays_left = <<>>
    /\ invoked = <<>>

\* No service constructed
ServiceIdle ==
    /\ svc_pc = "none"
    /\ running = FALSE
    /\ now = 0
    /\ start_time = 0
    /\ player_process = "none"
    /\ relay_pins = "off"
    /\ shutdowns = 0
    /\ thr_pc = "unstarted"
    /\ serial = "none"
    /\ last_read = 0
    /\ alive_players = 0
    /\ launches = 0

AppIdle == MqttIdle /\ RelayIdle /\ ServiceIdle

-----------------------------------------------------------------------------
(* What the BMS may send *)

\* Non-zero filler bytes before the padding, at most
MaxFiller == 1

\* Bytes after the pack group, at most
MaxTrailer == 1

WithSum(body) == body \o << SumSeq(body) % 256 >>

\* A response: the header, the data length, the data, the checksum
BmsFrame(cmd, data) == WithSum(<<61, 1, 2, cmd, 1, 0, Len(data) % 256>> \o data)

\* The device sends a frame in one burst or in two
Bursts(frame) ==
    { <<frame, <<>>, <<>>, <<>>>> }
    \cup (IF Len(frame) >= 2
          THEN { << SubSeq(frame, 1, Len(frame) \div 2),
                    SubSeq(frame, Len(frame) \div 2 + 1, Len(frame)), <<>>, <<>> >> }
          ELSE {})

Silent == <<<<>>, <<>>, <<>>, <<>>>>

\* The device keeps sending: the frame in four bursts, and more after it
\* (frames of four bytes or more)
Streaming(frame, more) ==
    LET q == Len(frame) \div 4
    IN  << SubSeq(frame, 1, q), SubSeq(frame, q + 1, 2 * q),
           SubSeq(frame, 2 * q + 1, 3 * q), SubSeq(frame, 3 * q + 1, Len(frame)),
           more >>

AllBursts(frames) == UNION { Bursts(f) : f \in frames }

\* Cell-count answers: a count in range, out of range, a damaged frame, a
\* frame that ends after the header, a two-byte fragment, nothing
CellCountFrames ==
    { BmsFrame(39, <<c>>) : c \in {3, 7, 24, 0, 25} }
    \cup { Corrupt(BmsFrame(39, <<7>>)), WithSum(<<61, 1, 2, 39, 1, 0>>), <<61, 61>> }

CellCountScripts == {Silent} \cup AllBursts(CellCountFrames)

LeBytes(v) == << v % 256, (v \div 256) % 256 >>

RECURSIVE Repeat(_, _)
Repeat(b, n) == IF n <= 0 THEN <<>> ELSE <<b>> \o Repeat(b, n - 1)

RECURSIVE CellBlock(_)
CellBlock(mv) == IF mv = <<>> THEN <<>> ELSE LeBytes(Head(mv)) \o CellBlock(Tail(mv))

\* Cell voltages of the pack, in millivolts
CellProfiles ==
    { <<3250, 3250, 3250, 3250>>, <<3250, 3250, 3250, 3255>>, <<3200, 3200, 3200, 3200>> }

\* The pack group: voltage, current, two bytes, SOC, SOH
PackGroup(v, i, soc, soh) == LeBytes(v) \o LeBytes(i) \o <<9, 9, soc, soh>>

\* Pack voltage as the BMS measures it against the cell sum, with current,
\* SOC and SOH
PackReadings(mv) ==
    LET cv == SumSeq(mv) \div 10
    IN  { <<cv + dv, 150, 87, 100>> : dv \in {-13, -12, 12, 13} }
        \cup { <<cv, 65386, 0, 255>>, <<cv, 150, 101, 100>> }

\* Real-time payloads: cells, filler, zero padding, pack group, trailer
RealTimePayloads ==
    { CellBlock(mv) \o Repeat(238, f) \o Repeat(0, z)
        \o PackGroup(p[1], p[2], p[3], p[4]) \o Repeat(7, t) :
        <<mv, p, f, z, t>> \in
            { <<mv, p, f, z, t>> \in
                CellProfiles \X (UNION { PackReadings(m) : m \in CellProfiles })
                    \X (0..MaxFiller) \X {0, 15, 16} \X (0..MaxTrailer) :
                p \in PackReadings(mv) } }

\* Payloads with no pack group: padding that runs to the end
PaddedPayloads ==
    { CellBlock(mv) \o Repeat(0, 20) : mv \in CellProfiles }

\* Payloads that end soon after the cells
ShortPayloads ==
    { CellBlock(mv) \o <<1, 2, 3, 4, 5>> : mv \in CellProfiles }

\* Payloads with an in-window value at the scan start, then one filler byte,
\* padding, and a pack group that reads a tenth of a volt lower
DecoyPayloads ==
    { CellBlock(mv) \o LeBytes(SumSeq(mv) \div 10) \o <<238>> \o Repeat(0, 16)
          \o PackGroup(SumSeq(mv) \div 10 - 10, 150, 55, 100) \o <<7>> :
      mv \in CellProfiles }

\* Payloads with 10 or 20 zero bytes between the cells and the pack group
ZeroRunPayloads ==
    { CellBlock(mv) \o Repeat(0, z) \o PackGroup(SumSeq(mv) \div 10, 150, 87, 100)
          \o <<7>> :
      mv \in CellProfiles, z \in {10, 20} }

\* Payloads with 16 zero bytes after the cells, a pack voltage equal to the
\* cell sum or one centivolt above it, and two bytes after the pack group
LongTailPayloads ==
    { CellBlock(mv) \o Repeat(0, 16) \o PackGroup(SumSeq(mv) \div 10 + dv, 150, 87, 100)
          \o <<7, 7>> :
      mv \in CellProfiles, dv \in {0, 1} }

\* Payloads cut off four bytes after the pack voltage
CutGroupPayloads ==
    { CellBlock(mv) \o <<238, 238>> \o LeBytes(SumSeq(mv) \div 10) \o <<150, 0, 9, 9>> :
      mv \in CellProfiles }

RealTimeFrames ==
    { BmsFrame(0, d) : d \in RealTimePayloads \cup PaddedPayloads \cup ShortPayloads
                              \cup DecoyPayloads \cup ZeroRunPayloads
                              \cup LongTailPayloads \cup CutGroupPayloads }
    \cup { Corrupt(BmsFrame(0, d)) : d \in PaddedPayloads }
    \cup { BmsFrame(0, <<1, 2, 3>>) }

RealTimeScripts == {Silent} \cup AllBursts(RealTimeFrames)

\* MOS answers: on, off, another value, a frame of 7 bytes, a damaged frame
MosFrames ==
    { BmsFrame(45, <<1>>), BmsFrame(45, <<0>>), BmsFrame(45, <<2>>),
      WithSum(<<61, 1, 2, 45, 1, 0>>), Corrupt(BmsFrame(45, <<1>>)) }

MosScripts ==
    {Silent} \cup AllBursts(MosFrames)
        \cup UNION { { Streaming(f, <<61>>), Streaming(f, f) } : f \in MosFrames }

InitBms ==
    /\ impl \in Impls
    /\ AppIdle
    /\ LinkInit
    /\ BmsIdle
    /\ CycleIdle
    /\ ObsIdle

ReadBms == BmsCall /\ UNCHANGED notBms

ReadBmsCellCount == BmsCellCount(CellCountScripts) /\ UNCHANGED notBms

ReadBmsRealTime == BmsRealTime(RealTimeScripts) /\ UNCHANGED notBms

ReadBmsMos == BmsMos(MosScripts) /\ UNCHANGED notBms

NextBms ==
    \/ ReadBms
    \/ ReadBmsCellCount
    \/ ReadBmsRealTime
    \/ ReadBmsMos

\* BMS reads, over what the BMS may send
SpecBms == InitBms /\ [][NextBms]_vars

-----------------------------------------------------------------------------
InitLink ==
    /\ impl \in Impls
    /\ AppIdle
    /\ LinkInit
    /\ BmsIdle
    /\ CycleIdle
    /\ ObsIdle

NextLink ==
    \/ ReadRegistersSend
    \/ DeviceAnswer
    \/ Deliver
    \/ ReadRegistersRecv

\* Exchanges on the shared link, with answers that may arrive late
SpecLink == InitLink /\ [][NextLink]_vars

-----------------------------------------------------------------------------
(* read_registers over what serial.read may return: whole frames, fragments, *)
(* exception frames, frames whose byte count disagrees with their length.    *)

\* Data bytes after the byte count, at most
MaxPayload == 4

RECURSIVE SeqsUpTo(_, _)
SeqsUpTo(alphabet, n) ==
    IF n = 0 THEN { <<>> }
    ELSE LET shorter == SeqsUpTo(alphabet, n - 1)
         IN  shorter \cup { Append(s, b) : s \in shorter, b \in alphabet }

\* Frame bodies: an address, a function code or its exception echo (0x84),
\* a byte count or exception code, data bytes
ParseBodies ==
    { <<1>>, <<1, 4>>, <<1, 132>> }
    \cup { <<1, fc, bc>> \o data :
            fc \in {4, 132}, bc \in {0, 1, 2, 3, 4, 6},
            data \in SeqsUpTo({18, 52}, MaxPayload) }

\* What arrives: nothing, a body with its CRC, with a wrong CRC, without one
ParseFrames ==
    { <<>> } \cup ParseBodies
        \cup { WithCrc(b) : b \in ParseBodies }
        \cup { Corrupt(WithCrc(b)) : b \in ParseBodies }

\* The bytes reach the input buffer while read_registers waits
FrameArrives ==
    /\ rr_pc = "sent"
    /\ rr_req \in unanswered
    /\ \E frame \in ParseFrames : in_buf' = Tagged(frame, rr_req.slave)
    /\ unanswered' = unanswered \ {rr_req}
    /\ UNCHANGED <<impl, rr_pc, rr_req, tx, wire, response, rr_result, port, notLink>>

NextParse ==
    \/ ReadRegistersSend
    \/ FrameArrives
    \/ ReadRegistersRecv

SpecParse == InitLink /\ [][NextParse]_vars

-----------------------------------------------------------------------------
(* Device readers and the poll cycle: read_mppt_data, read_env_data,         *)
(* read_ldr_data, read_pir_data, read_all_devices (modbus_reader) and        *)
(* read_mppt, read_env, read_ldr, read_pir, read_all (nubank_complete).      *)
(* A reading keeps the integer behind the rounded value: hundredths for      *)
(* round(x, 2), tenths for round(x, 1).  In a poll cycle a device answers    *)
(* within the read timeout or not at all.                                    *)

\* "if reg:" on what read_registers returned
truthy(result) == result.ret = "regs" /\ result.regs # <<>>

\* if raw_current > 0x7FFF: raw_current = raw_current - 0x10000
signed16(raw) == IF raw > 32767 THEN raw - 65536 ELSE raw

RECURSIVE Pow2(_)
Pow2(n) == IF n = 0 THEN 1 ELSE 2 * Pow2(n - 1)

\* round() of the exact value n / q, q > 0: to the nearest, a tie to even
RoundHalfEven(n, q) ==
    LET f == n \div q
        r == n % q
    IN  IF 2 * r < q THEN f
        ELSE IF 2 * r > q THEN f + 1
        ELSE IF f % 2 = 0 THEN f ELSE f + 1

\* round(struct.unpack('>f', struct.pack('>HH', r0, r1))[0], 1) in tenths:
\* IEEE 754 single precision, sign, 8 exponent bits, 23 fraction bits.
\* Magnitudes of 2^28 and beyond are outside the model's integers.
float32_tenths(r0, r1) ==
    LET negative == r0 >= 32768
        exp == (r0 \div 128) % 256
        mant == (r0 % 128) * 65536 + r1
        sig == 8388608 + mant
    IN  IF exp = 255
        THEN (IF mant # 0 THEN "nan" ELSE IF negative THEN "-inf" ELSE "inf")
        ELSE LET mag == CASE exp < 122 -> 0
                          [] exp >= 122 /\ exp <= 150 ->
                                RoundHalfEven(10 * sig, Pow2(150 - exp))
                          [] exp > 150 /\ exp <= 153 -> 10 * sig * Pow2(exp - 150)
             IN  IF negative THEN 0 - mag ELSE mag

\* results.update(data)
dict_update(d, u) ==
    IF DOMAIN u = {} THEN d ELSE IF DOMAIN d = {} THEN u ELSE u @@ d

Devices == {"mppt", "env", "ldr", "bms", "pir"}

\* The read_registers calls of each device reader, in program order, with the
\* key each one fills
MpptReads ==
    << [key |-> "mppt_pv_voltage", req |-> Req(1, 12366, 1, 4)],
       [key |-> "mppt_pv_current", req |-> Req(1, 12367, 1, 4)],
       [key |-> "mppt_battery_soc", req |-> Req(1, 12357, 1, 4)],
       [key |-> "mppt_battery_voltage", req |-> Req(1, 12358, 1, 4)],
       [key |-> "mppt_battery_current", req |-> Req(1, 12359, 1, 4)] >>

EnvReads ==
    << [key |-> "env_co2", req |-> Req(123, 8, 2, 3)],
       [key |-> "env_temperature", req |-> Req(123, 14, 2, 3)],
       [key |-> "env_humidity", req |-> Req(123, 16, 2, 3)] >>

LdrReads == << [key |-> "ldr_lux", req |-> Req(4, 0, 2, 3)] >>

PirReads == << [key |-> "pir_motion_detected", req |-> Req(2, 0, 1, 3)] >>

\* The MPPT readings are kept as integers: the integer stored under a key
\* stands for that integer divided by 100 where the code stores
\* round(x / 100.0, 2), and for itself where the code stores the register
mppt_denominator(key) == IF key = "mppt_battery_soc" THEN 1 ELSE 100

\* An MPPT decoder that takes the battery current register as unsigned
reading_unsigned(dev, key, result) ==
    IF truthy(result) THEN key :> result.regs[1] ELSE EmptyDict

\* A reader that stores 0 for a read that gave no register
reading_or_zero(dev, key, result) ==
    IF truthy(result) THEN key :> result.regs[1] ELSE key :> 0

\* What one read adds to the reader's dict
reading(dev, key, result) ==
    CASE dev = "mppt" ->
            IF truthy(result)
            THEN key :> (IF key = "mppt_battery_current"
                         THEN signed16(result.regs[1]) ELSE result.regs[1])
            ELSE EmptyDict
      [] dev = "env" ->
            IF truthy(result) /\ Len(result.regs) >= 2
            THEN key :> float32_tenths(result.regs[1], result.regs[2])
            ELSE EmptyDict
      [] dev = "ldr" ->
            IF truthy(result) /\ Len(result.regs) >= 2
            THEN key :> (result.regs[1] * 65536 + result.regs[2])
            ELSE EmptyDict
      [] dev = "pir" ->
            IF truthy(result) THEN key :> (result.regs[1] # 0) ELSE EmptyDict

\* data[power] = round(data[voltage] * data[current], 2) when both are there
power_of(data, voltage, current, power) ==
    IF voltage \in DOMAIN data /\ current \in DOMAIN data
    THEN { power :> p : p \in RoundCands(data[voltage] * data[current], 100) }
    ELSE { EmptyDict }

\* The dict a device reader ends with
reader_finish(dev, data) ==
    IF dev = "mppt"
    THEN { dict_update(dict_update(data, pv), bat) :
             pv \in power_of(data, "mppt_pv_voltage", "mppt_pv_current",
                             "mppt_pv_power"),
             bat \in power_of(data, "mppt_battery_voltage", "mppt_battery_current",
                              "mppt_battery_power") }
    ELSE { data }

\* nubank_complete read_all: the metadata added before the return
Metadata ==
    [k \in {"timestamp", "device_id", "location", "device_type"} |->
        CASE k = "timestamp" -> "now"
          [] k = "device_id" -> "DIGITALPARK-BANK-01"
          [] k = "location" -> "Atasehir-Istanbul"
          [] k = "device_type" -> 193]

read_all_return(imp, res) == IF imp = NB THEN dict_update(res, Metadata) ELSE res

\* The devices read with read_registers
RegisterDevices == {"mppt", "env", "ldr", "pir"}

\* During one cycle a register device answers every request, answers none,
\* sits on a line that damages every frame, or keeps sending after its answer
Fates == {"ok", "silent", "noisy", "streaming"}

\* The behaviours of the register devices in one cycle; the device that keeps
\* sending is the MPPT
CycleFates ==
    { f \in [RegisterDevices -> Fates] :
        \A dev \in RegisterDevices \ {"mppt"} : f[dev] # "streaming" }

\* The results of the reads among the calls on the port
port_reads(calls) ==
    LET reads == SelectSeq(calls, LAMBDA c : c.op = "read")
    IN  [i \in 1..Len(reads) |-> reads[i].data]

DeviceAt(slave) ==
    CASE slave = 1 -> "mppt" [] slave = 123 -> "env" [] slave = 4 -> "ldr"
      [] slave = 2 -> "pir"

FatedAnswers(req) ==
    CASE fate[DeviceAt(req.slave)] = "ok" -> { GoodAnswer(req) }
      [] fate[DeviceAt(req.slave)] = "silent" -> { <<>> }
      [] fate[DeviceAt(req.slave)] = "noisy" -> { Corrupt(GoodAnswer(req)) }
      [] fate[DeviceAt(req.slave)] = "streaming" ->
            { GoodAnswer(req) \o GoodAnswer(req) }

\* An entry that does not start from an empty dict
PollEntryStale(fates) ==
    /\ cyc_pc \in {"idle", "done"}
    /\ cyc_pc' = "mppt"
    /\ cyc_reads' = 0
    /\ dev_data' = EmptyDict
    /\ results' = results
    /\ issued' = <<>>
    /\ dev_ok' = {}
    /\ fate' \in fates
    /\ UNCHANGED <<impl, linkVars, bmsVars>>

\* Entry of read_all_devices / read_all: results = {}; the devices' behaviour
\* during the cycle is theirs to choose
PollEntry(fates) ==
    /\ cyc_pc \in {"idle", "done"}
    /\ cyc_pc' = "mppt"
    /\ cyc_reads' = 0
    /\ dev_data' = EmptyDict
    /\ results' = EmptyDict
    /\ issued' = <<>>
    /\ dev_ok' = {}
    /\ fate' \in fates
    /\ UNCHANGED <<impl, linkVars, bmsVars>>

ReadAllDevices == PollEntry(CycleFates) /\ UNCHANGED <<obsVars, appVars>>

\* One read_registers call of a device reader, from the request to the
\* stored key (answers[k]: what the device may send to the k-th request);
\* after the reader's last call, its return and the caller's
\* "if data: results.update(data)"; after the last reader, the cycle's return.
\* (The locals are bound as elements of one-element sets: TLC computes each
\* once.)
ReadDevice(dev, reads, next, answers) ==
    /\ cyc_pc = dev
    /\ LET k == cyc_reads + 1
           req == reads[k].req
       IN  \E frame \in answers[k] :
            \E n \in { Min(expected_length(req.count), Len(frame)) } :
            \E got \in { SubSeq(frame, 1, n) } :
            \E result \in { parse_response(impl, got) } :
            \E data \in { dict_update(dev_data, reading(dev, reads[k].key, result)) } :
                /\ rr_req' = req
                /\ tx' = build_request(req.slave, req.addr, req.count, req.fc)
                /\ issued' = Append(issued, tx')
                /\ response' = Tagged(got, req.slave)
                /\ in_buf' = Tagged(SubSeq(frame, n + 1, Len(frame)), req.slave)
                /\ rr_result' = result
                /\ port' = Append(port_open(tx'), port_read(expected_length(req.count), got))
                /\ dev_ok' = IF verify_crc(frame) THEN dev_ok \cup {dev} ELSE dev_ok
                /\ IF k < Len(reads)
                   THEN /\ cyc_reads' = k
                        /\ dev_data' = data
                        /\ UNCHANGED <<cyc_pc, results>>
                   ELSE \E final \in reader_finish(dev, data) :
                        /\ results' =
                             IF next = "done"
                             THEN read_all_return(impl, dict_update(results, final))
                             ELSE dict_update(results, final)
                        /\ cyc_pc' = next
                        /\ cyc_reads' = 0
                        /\ dev_data' = EmptyDict
    /\ UNCHANGED <<impl, rr_pc, unanswered, wire, bmsVars, fate>>

FatedScript(reads) == [k \in DOMAIN reads |-> FatedAnswers(reads[k].req)]

ReadMpptData ==
    ReadDevice("mppt", MpptReads, "env", FatedScript(MpptReads)) /\ UNCHANGED <<obsVars, appVars>>

ReadEnvData ==
    ReadDevice("env", EnvReads, "ldr", FatedScript(EnvReads)) /\ UNCHANGED <<obsVars, appVars>>

ReadLdrData ==
    ReadDevice("ldr", LdrReads, "bms", FatedScript(LdrReads)) /\ UNCHANGED <<obsVars, appVars>>

ReadPirData ==
    ReadDevice("pir", PirReads, "done", FatedScript(PirReads)) /\ UNCHANGED <<obsVars, appVars>>

\* The call of read_bms_data / read_bms_full
ReadAllBmsCall ==
    /\ cyc_pc = "bms"
    /\ bms_pc = "off"
    /\ BmsCall
    /\ UNCHANGED notBms

\* A bms_send exchange of that call
ReadAllBmsStep(exchange) ==
    /\ cyc_pc = "bms"
    /\ exchange
    /\ issued' = Append(issued, tx')
    /\ dev_ok' = IF bms_rx'.ok THEN dev_ok \cup {"bms"} ELSE dev_ok
    /\ UNCHANGED <<cyc_pc, cyc_reads, dev_data, results, fate>>

\* The BMS in a poll cycle: every frame in one burst
OneBurst(frames) == { <<f, <<>>, <<>>, <<>>>> : f \in frames }

PollCellCountScripts ==
    {Silent} \cup OneBurst({ BmsFrame(39, <<4>>), BmsFrame(39, <<7>>),
                             Corrupt(BmsFrame(39, <<4>>)),
                             WithSum(<<61, 1, 2, 39, 1, 0>>) })

PollRealTimePayloads ==
    { CellBlock(<<3250, 3250, 3250, 3250>>) \o Repeat(0, 16)
          \o PackGroup(1301, 65386, 87, 100),
      CellBlock(<<3250, 3250, 3250, 3250>>) \o <<1, 2, 3, 4, 5>> }

PollRealTimeScripts ==
    {Silent} \cup OneBurst({ BmsFrame(0, d) : d \in PollRealTimePayloads }
                           \cup { Corrupt(BmsFrame(0, d)) : d \in PollRealTimePayloads })

PollMosScripts ==
    {Silent} \cup OneBurst({ BmsFrame(45, <<1>>) })
        \cup { Streaming(BmsFrame(45, <<1>>), <<61, 1>>) }

ReadAllBmsCellCount ==
    ReadAllBmsStep(BmsCellCount(PollCellCountScripts)) /\ UNCHANGED <<obsVars, appVars>>

ReadAllBmsRealTime ==
    ReadAllBmsStep(BmsRealTime(PollRealTimeScripts)) /\ UNCHANGED <<obsVars, appVars>>

ReadAllBmsMos ==
    ReadAllBmsStep(BmsMos(PollMosScripts)) /\ UNCHANGED <<obsVars, appVars>>

\* Back in read_all_devices: "if bms_data: results.update(bms_data)"; the
\* locals of the call are gone
ReadAllBmsReturn ==
    /\ cyc_pc = "bms"
    /\ bms_pc = "returned"
    /\ results' = IF bms_ret = "None" THEN results ELSE dict_update(results, bms_data)
    /\ cyc_pc' = "pir"
    /\ bms_pc' = "off"
    /\ bms_cmds' = <<>>
    /\ series_count' = DEFAULT_SERIES
    /\ bms_rx' = BmsNone("idle")
    /\ bms_locals' = NoLocals
    /\ bms_data' = EmptyDict
    /\ bms_ret' = "none yet"
    /\ UNCHANGED <<impl, linkVars, cyc_reads, dev_data, issued, dev_ok, fate, obsVars, appVars>>

InitCycle ==
    /\ impl \in Impls
    /\ AppIdle
    /\ LinkInit
    /\ BmsIdle
    /\ CycleIdle
    /\ ObsIdle

NextCycle ==
    \/ ReadAllDevices
    \/ ReadMpptData
    \/ ReadEnvData
    \/ ReadLdrData
    \/ ReadAllBmsCall
    \/ ReadAllBmsCellCount
    \/ ReadAllBmsRealTime
    \/ ReadAllBmsMos
    \/ ReadAllBmsReturn
    \/ ReadPirData

\* Poll cycles, over what the devices may answer
SpecCycle == InitCycle /\ [][NextCycle]_vars

\* The steps inside a cycle.  Each is straight-line code with bounded loops,
\* time.sleep calls and serial reads that return when the port's timeout
\* (1.0 s) expires, so a cycle that has begun takes its next step.  Beginning
\* a cycle is the caller's choice.
CycleStep ==
    \/ ReadMpptData
    \/ ReadEnvData
    \/ ReadLdrData
    \/ ReadAllBmsCall
    \/ ReadAllBmsCellCount
    \/ ReadAllBmsRealTime
    \/ ReadAllBmsMos
    \/ ReadAllBmsReturn
    \/ ReadPirData

SpecCycleLive == SpecCycle /\ WF_vars(CycleStep)

-----------------------------------------------------------------------------
(* Poll cycles on one reader object, one after another, with the results of  *)
(* the serial reads of each cycle written down (heard) and one finished      *)
(* cycle kept for comparison (memo).                                         *)

\* MPPT and PIR answer or stay silent, cycle by cycle; ENV and LDR answer
ReplayFates ==
    { f \in [RegisterDevices -> {"ok", "silent"}] : f["env"] = "ok" /\ f["ldr"] = "ok" }

ReplayCellCountScripts ==
    {Silent} \cup OneBurst({ BmsFrame(39, <<4>>), BmsFrame(39, <<7>>) })

\* 4 cells of 3.250 V, padding, 13.01 V, -1.52 A, 87 %, 100 %
ReplayRealTimeScripts ==
    {Silent} \cup OneBurst({ BmsFrame(0, CellBlock(<<3250, 3250, 3250, 3250>>)
                                            \o Repeat(0, 16)
                                            \o PackGroup(1301, 65384, 87, 100)) })

ReplayMosScripts == OneBurst({ BmsFrame(45, <<1>>) })

\* The serial reads of the step just taken, written down
Hear ==
    /\ heard' = heard \o port_reads(port')
    /\ UNCHANGED <<memo, probe, appVars>>

\* The next call of read_all_devices / read_all on the same object.  The cycle
\* that has just returned may be kept; once one is kept, a later cycle that
\* heard something else is noted.
ReplayAllDevices ==
    /\ PollEntry(ReplayFates)
    /\ heard' = <<>>
    /\ memo' \in IF cyc_pc # "done" THEN { memo }
                  ELSE IF ~memo.kept
                  THEN { memo, [kept |-> TRUE, heard |-> heard, results |-> results,
                                others |-> FALSE] }
                  ELSE { [memo EXCEPT !.others = @ \/ heard # memo.heard] }
    /\ UNCHANGED <<probe, appVars>>

ReplayMpptData == ReadDevice("mppt", MpptReads, "env", FatedScript(MpptReads)) /\ Hear

ReplayEnvData == ReadDevice("env", EnvReads, "ldr", FatedScript(EnvReads)) /\ Hear

ReplayLdrData == ReadDevice("ldr", LdrReads, "bms", FatedScript(LdrReads)) /\ Hear

ReplayPirData == ReadDevice("pir", PirReads, "done", FatedScript(PirReads)) /\ Hear

ReplayBmsCellCount == ReadAllBmsStep(BmsCellCount(ReplayCellCountScripts)) /\ Hear

ReplayBmsRealTime == ReadAllBmsStep(BmsRealTime(ReplayRealTimeScripts)) /\ Hear

ReplayBmsMos == ReadAllBmsStep(BmsMos(ReplayMosScripts)) /\ Hear

NextReplay ==
    \/ ReplayAllDevices
    \/ ReplayMpptData
    \/ ReplayEnvData
    \/ ReplayLdrData
    \/ ReadAllBmsCall
    \/ ReplayBmsCellCount
    \/ ReplayBmsRealTime
    \/ ReplayBmsMos
    \/ ReadAllBmsReturn
    \/ ReplayPirData

SpecReplay == InitCycle /\ [][NextReplay]_vars

-----------------------------------------------------------------------------
(* read_registers called with arguments over their ranges, on a bus where    *)
(* nothing answers.                                                          *)

AnyRequests ==
    { Req(s, a, c, f) : s \in {0, 1, 255}, a \in {0, 256, 12366, 65535},
                        c \in {1, 10, 256, 65535}, f \in {3, 4} }

\* read_registers up to its read: the request is built, both buffers are
\* reset, the request is written
ReadRegistersWrite ==
    /\ rr_pc = "idle"
    /\ \E req \in AnyRequests :
        /\ rr_req' = req
        /\ tx' = build_request(req.slave, req.addr, req.count, req.fc)
    /\ in_buf' = <<>>
    /\ response' = <<>>
    /\ rr_result' = Fail("pending")
    /\ rr_pc' = "sent"
    /\ port' = port_open(tx')
    /\ UNCHANGED <<impl, unanswered, wire, notLink>>

NextRequest ==
    \/ ReadRegistersWrite
    \/ ReadRegistersRecv

SpecRequest == InitLink /\ [][NextRequest]_vars

-----------------------------------------------------------------------------
(* read_mppt_data / read_mppt called on its own, over register values *)

\* Register values an MPPT may report, read by read: pv voltage, pv current,
\* SOC, battery voltage, battery current (both sides of the sign boundary,
\* -1.50 A)
MpptRegisterValues ==
    << {0, 1960}, {578, 65535}, {0, 87, 100}, {1326, 32768},
       {150, 32767, 32768, 65386} >>

\* To each request the MPPT answers with one register or stays silent
MpptAnswers ==
    [k \in DOMAIN MpptReads |->
        { <<>> } \cup { WithCrc(<<1, 4, 2, v \div 256, v % 256>>) :
                          v \in MpptRegisterValues[k] }]

InitMppt ==
    /\ impl \in Impls
    /\ AppIdle
    /\ LinkInit
    /\ BmsIdle
    /\ ObsIdle
    /\ cyc_pc = "mppt"
    /\ cyc_reads = 0
    /\ dev_data = EmptyDict
    /\ results = EmptyDict
    /\ issued = <<>>
    /\ dev_ok = {}
    /\ fate = [dev \in RegisterDevices |-> "ok"]

\* The five read_registers calls of the reader, then its powers and return
ReadMpptRegisters == ReadDevice("mppt", MpptReads, "env", MpptAnswers) /\ Hear

SpecMppt == InitMppt /\ [][ReadMpptRegisters]_vars

\* The register an MPPT reports for each of the five reads
MpptTypical == <<1960, 578, 87, 1326, 65386>>

\* To each request the MPPT answers with its register, with that answer
\* damaged in transit, with an answer that carries no register (byte count
\* 0), with an exception response, or not at all
MpptPartialAnswers ==
    [k \in DOMAIN MpptReads |->
        LET v == MpptTypical[k]
            good == WithCrc(<<1, 4, 2, v \div 256, v % 256>>)
        IN  { <<>>, good, Corrupt(good), WithCrc(<<1, 4, 0>>), WithCrc(<<1, 132, 3>>) }]

\* The five read_registers calls of the reader, each with any of these
\* outcomes, then its powers and return
ReadMpptPartial == ReadDevice("mppt", MpptReads, "env", MpptPartialAnswers) /\ Hear

SpecMpptPartial == InitMppt /\ [][ReadMpptPartial]_vars

-----------------------------------------------------------------------------
(* The two frame checks as functions of bytes: calculate_crc and verify_crc  *)
(* of modbus_reader, and the checksum bms_send appends to a request and      *)
(* tests on a response, applied to byte sequences and to damaged frames.     *)

\* Bytes of a sequence the functions are applied to, at most
MaxSeqLen == 3

ProbeBytes == {0, 1, 18, 255}

ProbeInputs == SeqsUpTo(ProbeBytes, MaxSeqLen)

\* Bit b of byte i of a frame inverted
FlipBit(frame, i, b) == [frame EXCEPT ![i] = BitXor(@, Pow2(b))]

\* Byte i of a frame changed to another value
ChangedBytes(frame, i) ==
    { [frame EXCEPT ![i] = (@ + delta) % 256] : delta \in {1, 127, 128, 255} }

InitProbe ==
    /\ impl \in Impls
    /\ AppIdle
    /\ LinkInit
    /\ BmsIdle
    /\ CycleIdle
    /\ heard = <<>>
    /\ memo = NoMemo
    /\ probe \in { [NoProbe EXCEPT !.input = seq] : seq \in ProbeInputs }

\* verify_crc(seq + calculate_crc(seq))
VerifyCrcOfFramed ==
    /\ impl = MR
    /\ probe.fn = "none"
    /\ \E framed \in { probe.input \o calculate_crc(probe.input) } :
            probe' = [probe EXCEPT !.fn = "crc", !.framed = framed,
                                   !.accepted = verify_crc(framed)]
    /\ UNCHANGED <<impl, linkVars, bmsVars, cycVars, heard, memo, appVars>>

\* verify_crc of that frame with one bit inverted
VerifyCrcOfFlipped ==
    /\ probe.fn = "crc"
    /\ \E i \in 1..Len(probe.framed), b \in 0..7 :
        \E flipped \in { FlipBit(probe.framed, i, b) } :
            probe' = [probe EXCEPT !.fn = "crc_flip", !.framed = flipped,
                                   !.accepted = verify_crc(flipped)]
    /\ UNCHANGED <<impl, linkVars, bmsVars, cycVars, heard, memo, appVars>>

\* bms_send's test of body + [sum(body) & 0xFF]
BmsCheckOfFramed ==
    /\ probe.fn = "none"
    /\ \E framed \in { WithSum(probe.input) } :
            probe' = [probe EXCEPT !.fn = "sum", !.framed = framed,
                                   !.accepted = bms_accept(framed).ok]
    /\ UNCHANGED <<impl, linkVars, bmsVars, cycVars, heard, memo, appVars>>

\* bms_send's test of that frame with one byte changed
BmsCheckOfChanged ==
    /\ probe.fn = "sum"
    /\ \E i \in 1..Len(probe.framed) :
        \E changed \in ChangedBytes(probe.framed, i) :
            probe' = [probe EXCEPT !.fn = "sum_change", !.framed = changed,
                                   !.accepted = bms_accept(changed).ok]
    /\ UNCHANGED <<impl, linkVars, bmsVars, cycVars, heard, memo, appVars>>

\* The request bms_send builds for a command and a payload (rw left at its
\* default)
BmsRequestOfPayload ==
    /\ probe.fn = "none"
    /\ \E cmd \in {39, 0, 45, 46} :
            probe' = [probe EXCEPT !.fn = "bms_request",
                                   !.framed = bms_request(cmd, 1, probe.input),
                                   !.accepted = TRUE]
    /\ UNCHANGED <<impl, linkVars, bmsVars, cycVars, heard, memo, appVars>>

NextProbe ==
    \/ BmsRequestOfPayload
    \/ VerifyCrcOfFramed
    \/ VerifyCrcOfFlipped
    \/ BmsCheckOfFramed
    \/ BmsCheckOfChanged

SpecProbe == InitProbe /\ [][NextProbe]_vars

-----------------------------------------------------------------------------
\* C1: registers are returned only for a response whose last two bytes are
\* the Modbus CRC-16 of all the bytes before them (in both implementations)
C1_RegistersOnlyWithValidCrc ==
    (rr_pc = "idle" /\ rr_result.ret = "regs") =>
        LET resp == Bytes(response)
        IN  /\ Len(resp) >= 2
            /\ SubSeq(resp, Len(resp) - 1, Len(resp))
                   = calculate_crc(SubSeq(resp, 1, Len(resp) - 2))

\* C2: every byte of a response that is decoded into registers was sent by
\* the device the request was addressed to
C2_NoMisattribution ==
    (rr_pc = "idle" /\ rr_result.ret = "regs") =>
        Senders(response) \subseteq {rr_req.slave}

-----------------------------------------------------------------------------
(* The poll cycle *)

\* The step a written request belongs to: the device address and, for the
\* BMS (0x3D), the command code
StepOf(request) == << request[1], IF request[1] = 61 THEN request[4] ELSE 0 >>

\* The steps of a request log: consecutive requests of one step count once
RECURSIVE StepsOf(_)
StepsOf(log) ==
    IF log = <<>> THEN <<>>
    ELSE LET rest == StepsOf(Tail(log))
         IN  IF rest # <<>> /\ rest[1] = StepOf(Head(log)) THEN rest
             ELSE <<StepOf(Head(log))>> \o rest

\* MPPT, ENV, LDR, BMS 0x27, 0x00, 0x2D, 0x2E, PIR
FixedOrder ==
    << <<1, 0>>, <<123, 0>>, <<4, 0>>, <<61, 39>>, <<61, 0>>, <<61, 45>>,
       <<61, 46>>, <<2, 0>> >>

\* C3: when a poll cycle has returned, the steps it issued are MPPT, ENV,
\* LDR, BMS 0x27, BMS 0x00, BMS 0x2D, BMS 0x2E, PIR, in this order and each
\* exactly once, whatever the devices answered
C3_FixedOrderEachStepOnce ==
    cyc_pc = "done" => StepsOf(issued) = FixedOrder

\* The keys each device reader stores
DeviceKeys(dev) ==
    CASE dev = "mppt" ->
            { MpptReads[i].key : i \in DOMAIN MpptReads }
                \cup {"mppt_pv_power", "mppt_battery_power"}
      [] dev = "env" -> { EnvReads[i].key : i \in DOMAIN EnvReads }
      [] dev = "ldr" -> { LdrReads[i].key : i \in DOMAIN LdrReads }
      [] dev = "pir" -> { PirReads[i].key : i \in DOMAIN PirReads }
      [] dev = "bms" ->
            { "bms_cell_1_voltage", "bms_cell_2_voltage", "bms_cell_3_voltage",
              "bms_cell_4_voltage", "bms_battery_voltage", "bms_battery_current",
              "bms_battery_soc", "bms_battery_soh", "bms_battery_power",
              "bms_discharge_mos_status", "bms_charge_mos_status" }

\* C4: when a poll cycle of modbus_reader has returned, a device of which
\* every exchange failed (no answer, or a damaged frame) has no key in the
\* aggregate
C4_FailedDeviceContributesNothing ==
    (cyc_pc = "done" /\ impl = MR) =>
        \A dev \in Devices \ dev_ok : DOMAIN results \cap DeviceKeys(dev) = {}

-----------------------------------------------------------------------------
(* The BMS field locator and the BMS read *)

ByteAt(d, i) == d[i + 1]

Word(d, i) == ByteAt(d, i) + 256 * ByteAt(d, i + 1)

\* C5: with v the rounded cell sum in centivolts, the pack index is the
\* smallest byte offset i, scan start <= i < len(payload) - 8, whose
\* little-endian 16-bit value lies in [v - 12, v + 12]; none: a miss
C5_LocatorFirstMatch ==
    bms_locals.ran =>
        LET d == bms_locals.d
            v == bms_locals.v_guess
            hits == { i \in bms_locals.base_start..(Len(d) - 9) :
                        v - 12 <= Word(d, i) /\ Word(d, i) <= v + 12 }
        IN  /\ 10 * v - 5 <= bms_locals.total_v
            /\ bms_locals.total_v <= 10 * v + 5
            /\ IF hits = {} THEN bms_locals.pack_idx = NoPack
               ELSE /\ bms_locals.pack_idx \in hits
                    /\ \A j \in hits : bms_locals.pack_idx <= j

\* C5 witness: a match at an odd offset, after offsets that did not match
C5_Witness ==
    /\ bms_locals.ran
    /\ bms_locals.pack_idx # NoPack
    /\ bms_locals.pack_idx % 2 = 1
    /\ bms_locals.pack_idx > bms_locals.base_start

\* C6: on a locator miss the pack voltage is the rounded cell sum, the
\* current is 0.0, and SOC and SOH carry an "unknown" value that no valid
\* reading 0..100 can be
C6_FallbackUnknown ==
    (bms_locals.ran /\ bms_locals.pack_idx = NoPack) =>
        /\ 10 * bms_data["bms_battery_voltage"] - 5 <= bms_locals.total_v
        /\ bms_locals.total_v <= 10 * bms_data["bms_battery_voltage"] + 5
        /\ bms_data["bms_battery_current"] = 0
        /\ bms_data["bms_battery_soc"] \notin 0..100
        /\ bms_data["bms_battery_soh"] \notin 0..100

RECURSIVE ZeroRunLen(_, _)
ZeroRunLen(d, i) ==
    IF i >= Len(d) \/ ByteAt(d, i) # 0 THEN 0 ELSE 1 + ZeroRunLen(d, i + 1)

\* C7: the scan starts at max(2 * seriesCount, 8) and moves only past a run
\* of at least 16 zero bytes that begins at that offset and ends inside the
\* payload
C7_ScanStart ==
    bms_locals.ran =>
        LET d == bms_locals.d
            start == IF 2 * series_count > 8 THEN 2 * series_count ELSE 8
            run == ZeroRunLen(d, start)
        IN  /\ bms_locals.start = start
            /\ bms_locals.base_start =
                 IF run >= 16 /\ start + run < Len(d) THEN start + run ELSE start

\* C8: at a found pack index p: voltage = u16 at p, current = the 16 bits at
\* p + 2 as two's complement, SOC = byte p + 6 and SOH = byte p + 7 when in
\* 0..100 and otherwise "unknown", a value that is no reading in 0..100
C8_PackFields ==
    (bms_locals.ran /\ bms_locals.pack_idx # NoPack) =>
        LET d == bms_locals.d
            p == bms_locals.pack_idx
            raw == Word(d, p + 2)
        IN  /\ bms_data["bms_battery_voltage"] = Word(d, p)
            /\ bms_data["bms_battery_current"] = IF raw > 32767 THEN raw - 65536 ELSE raw
            /\ IF ByteAt(d, p + 6) <= 100
               THEN bms_data["bms_battery_soc"] = ByteAt(d, p + 6)
               ELSE bms_data["bms_battery_soc"] \notin 0..100
            /\ IF ByteAt(d, p + 7) <= 100
               THEN bms_data["bms_battery_soh"] = ByteAt(d, p + 7)
               ELSE bms_data["bms_battery_soh"] \notin 0..100

\* C9: whatever the cell-count exchange yields, the read goes on to the
\* real-time step with a series count in 1..24
C9_CellCountNeverStopsTheRead ==
    (bms_cmds # <<>> /\ bms_pc # "cell_count") =>
        /\ series_count \in 1..24
        /\ Len(bms_cmds) = 1 => bms_pc = "real_time"

CellKey(k) ==
    CASE k = 0 -> "bms_cell_1_voltage"
      [] k = 1 -> "bms_cell_2_voltage"
      [] k = 2 -> "bms_cell_3_voltage"
      [] k = 3 -> "bms_cell_4_voltage"

\* C10: after a usable real-time response the read goes on, cell k is the
\* 16-bit value at offset 2k, and a cell the payload does not hold is 0.0
C10_TruncatedCellsAreZero ==
    (Len(bms_cmds) = 2 /\ bms_pc # "real_time" /\ realtime_usable(bms_rx)) =>
        LET d == realtime_payload(bms_rx.rx)
        IN  /\ bms_pc = "mos_discharge"
            /\ "bms_battery_voltage" \in DOMAIN bms_data
            /\ \A k \in 0..3 :
                 bms_data[CellKey(k)] =
                    IF k < series_count /\ 2 * k + 1 < Len(d) THEN Word(d, 2 * k) ELSE 0

-----------------------------------------------------------------------------
(* The exchanges on the serial port *)

\* The methods called on the port, in order
PortOps(calls) == [i \in 1..Len(calls) |-> calls[i].op]

RECURSIVE Concat(_)
Concat(chunks) == IF chunks = <<>> THEN <<>> ELSE Head(chunks) \o Concat(Tail(chunks))

\* A bms_send exchange has been made and the port log is its log
BmsExchanged == bms_cmds # <<>> /\ port # <<>> /\ port[3].data[1] = 61

\* C11: a bms_send exchange clears both buffers, writes the request, then
\* reads once and drains with 1 to 3 more reads (2 to 4 reads in all); no
\* read follows a drain read that returned nothing; the bytes put to the
\* checksum test are the results of those reads joined in order
C11_BmsReceiveLoop ==
    BmsExchanged =>
        LET got == port_reads(port)
            n == Len(got)
        IN  /\ PortOps(port) =
                  << "reset_input_buffer", "reset_output_buffer", "write" >>
                      \o [i \in 1..n |-> "read"]
            /\ 2 <= n /\ n <= 4
            /\ \A i \in 2..n : got[i] = <<>> => i = n
            /\ n < 4 => got[n] = <<>>
            /\ bms_rx = bms_accept(Concat(got))

\* C11 witness: four reads that all returned bytes, the checksum test passed
\* on their concatenation
C11_Witness ==
    /\ BmsExchanged
    /\ Len(port_reads(port)) = 4
    /\ \A i \in 1..4 : port_reads(port)[i] # <<>>
    /\ bms_rx.ok

\* The bytes the last bms_send received
BmsReceived == Concat(port_reads(port))

\* A step that made a bms_send exchange
BmsExchangeStep == Len(bms_cmds') = Len(bms_cmds) + 1

\* C12: bms_send hands back the received bytes exactly when there is at
\* least one and the last equals the sum of the others mod 256; no bytes
\* fail as NoResponse, a mismatch fails as ChecksumInvalid, and a failed
\* exchange hands no byte on and changes no decoded value (a MOS key reads
\* "UNKNOWN")
C12_BmsSendGate ==
    /\ [](BmsExchanged =>
            LET rx == BmsReceived
                sum_ok == rx # <<>> /\
                          rx[Len(rx)] = SumSeq(SubSeq(rx, 1, Len(rx) - 1)) % 256
            IN  /\ bms_rx.ok <=> sum_ok
                /\ bms_rx.rx = IF sum_ok THEN rx ELSE <<>>
                /\ rx = <<>> => bms_rx.log = "NoResponse"
                /\ (rx # <<>> /\ ~sum_ok) => bms_rx.log = "ChecksumInvalid")
    /\ [][(BmsExchangeStep /\ ~bms_rx'.ok) =>
            /\ series_count' = series_count
            /\ bms_locals' = bms_locals
            /\ \A k \in DOMAIN bms_data' :
                 \/ k \in DOMAIN bms_data /\ bms_data'[k] = bms_data[k]
                 \/ bms_data'[k] = "UNKNOWN"]_vars

\* C12 witness: a real-time response that fails the checksum test, after
\* which the read stands at the MOS step with no cell decoded
C12_Witness ==
    /\ BmsExchanged
    /\ Len(bms_cmds) = 2
    /\ BmsReceived # <<>>
    /\ bms_rx.log = "ChecksumInvalid"
    /\ bms_pc = "mos_discharge"
    /\ bms_data = EmptyDict

-----------------------------------------------------------------------------
(* read_registers: classification and decoding of a response *)

\* A read_registers call has returned
Returned == rr_pc = "idle" /\ port # <<>>

\* The trailing two bytes are the CRC-16 of the bytes before them
CrcMatches(resp) ==
    /\ Len(resp) >= 3
    /\ SubSeq(resp, Len(resp) - 1, Len(resp))
           = calculate_crc(SubSeq(resp, 1, Len(resp) - 2))

\* C13: modbus_reader's read_registers applies the first rule that fits:
\* nothing received: NoResponse; bit 0x80 set in byte 1: DeviceException
\* with the byte after it as code; CRC mismatch: FrameCorrupt; fewer than 5
\* bytes: FrameTooShort; otherwise the response is decoded
C13_ClassificationOrder ==
    (Returned /\ impl = MR) =>
        LET resp == Bytes(response)
        IN  CASE resp = <<>> ->
                    rr_result.ret = "None" /\ rr_result.log = "NoResponse"
              [] resp # <<>> /\ Len(resp) >= 2 /\ ByteAt(resp, 1) >= 128 ->
                    /\ rr_result.ret = "None"
                    /\ rr_result.log = "DeviceException"
                    /\ Len(resp) >= 3 => rr_result.code = ByteAt(resp, 2)
              [] OTHER ->
                    IF ~CrcMatches(resp)
                    THEN rr_result.ret = "None" /\ rr_result.log = "FrameCorrupt"
                    ELSE IF Len(resp) < 5
                    THEN rr_result.ret = "None" /\ rr_result.log = "FrameTooShort"
                    ELSE rr_result.ret = "regs"

\* C13 witness: an exception frame whose CRC is wrong as well is reported
\* as the exception, with its code
C13_Witness ==
    /\ Returned /\ impl = MR
    /\ Len(response) >= 5
    /\ ~CrcMatches(Bytes(response))
    /\ rr_result.log = "DeviceException"
    /\ rr_result.code = 2

\* What the caller of read_registers receives
ReturnValue(result) == << result.ret, result.regs >>

\* C14: the value read_registers returns after a response that is not
\* empty and was not decoded differs from the value it returns when the
\* device was silent
C14_FailureKindsDistinct ==
    (Returned /\ rr_result.ret # "regs" /\ response # <<>>) =>
        ReturnValue(rr_result) # ReturnValue(parse_response(impl, <<>>))

\* A response that passes the four checks of modbus_reader
PassesChecks(resp) ==
    /\ Len(resp) >= 5
    /\ ByteAt(resp, 1) < 128
    /\ CrcMatches(resp)

\* C15: for a response that passes the checks, with n = byte 2, the call
\* returns floor(n / 2) registers, register k being bytes 3 + 2k and
\* 3 + 2k + 1 of the response, high byte first
C15_RegisterDecode ==
    (Returned /\ impl = MR /\ PassesChecks(Bytes(response))) =>
        LET resp == Bytes(response)
            n == ByteAt(resp, 2)
        IN  /\ rr_result.ret = "regs"
            /\ Len(rr_result.regs) = n \div 2
            /\ \A k \in 0..(n \div 2 - 1) :
                 /\ 3 + 2 * k + 1 < Len(resp)
                 /\ rr_result.regs[k + 1]
                        = ByteAt(resp, 3 + 2 * k) * 256 + ByteAt(resp, 3 + 2 * k + 1)

-----------------------------------------------------------------------------
(* Every exchange of a poll cycle *)

\* The register count a read_registers request asks for (bytes 4 and 5)
RequestedCount(request) == ByteAt(request, 4) * 256 + ByteAt(request, 5)

\* C16: an exchange of either protocol calls reset_input_buffer, then
\* reset_output_buffer, then write; reads come only after the write; a
\* read_registers exchange makes a single read, of at most 3 + 2 * count + 2
\* bytes
C16_ClearThenWriteThenRead ==
    port # <<>> =>
        /\ Len(port) >= 3
        /\ port[1].op = "reset_input_buffer"
        /\ port[2].op = "reset_output_buffer"
        /\ port[3].op = "write" /\ port[3].data = tx
        /\ \A i \in 4..Len(port) : port[i].op = "read"
        /\ port[3].data[1] # 61 =>
              /\ Len(port) <= 4
              /\ \A i \in 4..Len(port) :
                    /\ port[i].size <= 3 + 2 * RequestedCount(port[3].data) + 2
                    /\ Len(port[i].data) <= port[i].size

\* C16 witness: a read_registers exchange with a device that sends more
\* than was asked for: the read returns 7 bytes and bytes are left over
C16_Witness ==
    /\ cyc_pc = "mppt"
    /\ Len(port) = 4
    /\ port[3].data[1] = 1
    /\ port[4].size = 7 /\ Len(port[4].data) = 7
    /\ in_buf # <<>>

\* Exchanges of one cycle, at most: 5 MPPT, 3 ENV, 1 LDR, 4 BMS, 1 PIR
MaxExchanges == 14

\* C17: a poll cycle that has begun returns, whatever the devices do
\* (silence, damaged frames, bytes without end); it makes at most 14
\* exchanges, with one read in a read_registers exchange and at most 4 in a
\* bms_send exchange
C17_CycleTerminates ==
    /\ [](/\ Len(issued) <= MaxExchanges
          /\ port # <<>> =>
                Len(port_reads(port)) <= (IF port[3].data[1] = 61 THEN 4 ELSE 1))
    /\ (cyc_pc \notin {"idle", "done"}) ~> (cyc_pc = "done")

\* C17 witness: a cycle has returned after all 14 exchanges, with an MPPT
\* that kept sending and a PIR that never answered
C17_Witness ==
    /\ cyc_pc = "done"
    /\ Len(issued) = MaxExchanges
    /\ fate["mppt"] = "streaming"
    /\ fate["pir"] = "silent"

-----------------------------------------------------------------------------
(* Replaying what a cycle heard *)

\* The reading values of a result dict: everything but the timestamp
Readings(res) == [k \in DOMAIN res \ {"timestamp"} |-> res[k]]

\* The series count the 0x27 exchange on the port yields, from the bytes read
HeardSeriesCount ==
    LET rx == BmsReceived
        n == Len(rx)
    IN  IF /\ n > 7
           /\ SumSeq(SubSeq(rx, 1, n - 1)) % 256 = rx[n]
           /\ rx[n - 1] >= 1
           /\ rx[n - 1] <= 24
        THEN rx[n - 1]
        ELSE 4

\* C18: a cycle that returns after hearing, read by read, what a kept cycle
\* on the same object heard, returns the same reading values (the timestamp
\* aside), whatever the cycles before and between them heard; and the series
\* count in use after the 0x27 exchange follows from the bytes read in that
\* exchange alone
C18_DecodingHistoryFree ==
    /\ (cyc_pc = "done" /\ memo.kept /\ memo.heard = heard) =>
            Readings(results) = Readings(memo.results)
    /\ (cyc_pc = "bms" /\ bms_pc = "real_time") =>
            series_count = HeardSeriesCount

\* C18 witness: a cycle has returned a decoded BMS and MPPT reading after
\* hearing what the kept cycle heard, with a cycle that heard something else
\* in between
C18_Witness ==
    /\ cyc_pc = "done"
    /\ memo.kept
    /\ memo.others
    /\ memo.heard = heard
    /\ "bms_battery_voltage" \in DOMAIN results
    /\ "mppt_pv_power" \in DOMAIN results
    /\ "pir_motion_detected" \notin DOMAIN results

-----------------------------------------------------------------------------
(* Round trips of the frame checks *)

\* C19 as stated: for every byte sequence, the sequence followed by its CRC
\* verifies, and it does not verify after any one bit is inverted
C19_CrcRoundTrip ==
    /\ probe.fn = "crc" => probe.accepted
    /\ probe.fn = "crc_flip" => ~probe.accepted

\* C19: for every byte sequence that is not empty, the sequence followed by
\* its CRC verifies; for every byte sequence, empty or not, the sequence
\* followed by its CRC does not verify after any one bit is inverted; the
\* CRC of the empty sequence alone (2 bytes) does not verify
C19_CrcRoundTripNonEmpty ==
    /\ probe.fn = "crc" => (probe.accepted <=> probe.input # <<>>)
    /\ probe.fn = "crc_flip" => ~probe.accepted

\* C19 witness: a bit of the CRC's high byte inverted after a sequence of
\* the greatest length, and the frame refused
C19_Witness ==
    /\ probe.fn = "crc_flip"
    /\ Len(probe.input) = MaxSeqLen
    /\ SubSeq(probe.framed, 1, MaxSeqLen + 1)
            = SubSeq(probe.input \o calculate_crc(probe.input), 1, MaxSeqLen + 1)
    /\ ~probe.accepted

\* C20: for every body, body + [sum(body) mod 256] passes the test of
\* bms_send, and fails it after any one byte, the checksum byte included, is
\* changed to another value
C20_BmsChecksumRoundTrip ==
    /\ probe.fn = "sum" => probe.accepted
    /\ probe.fn = "sum_change" => ~probe.accepted

\* C20 witness: a body byte of a frame of the greatest length changed by 128,
\* and the frame refused
C20_Witness ==
    /\ probe.fn = "sum_change"
    /\ Len(probe.input) = MaxSeqLen
    /\ probe.framed[1] = (probe.input[1] + 128) % 256
    /\ ~probe.accepted

-----------------------------------------------------------------------------
(* The locator on a pack of 13.00 V *)

\* Offsets the locator can report: from where its scan begins, with more
\* than 8 bytes left
ScanRange == bms_locals.base_start..(Len(bms_locals.d) - 9)

\* The value at offset p is the first one of the scan within 12 of 1300
FirstNear1300(p) ==
    \A q \in ScanRange : q < p => (Word(bms_locals.d, q) < 1288 \/ Word(bms_locals.d, q) > 1312)

\* C21: 4 cells that sum to 13.00 V.  A value of 1300 at an offset the scan
\* covers, with no value within 12 of 1300 before it, is found at that
\* offset; so is 1312; a payload whose only candidate reads 1313 is a miss
C21_LocatorTolerance ==
    (bms_locals.ran /\ Len(bms_locals.cells) = 4 /\ bms_locals.total_v = 13000) =>
        /\ bms_locals.v_guess = 1300
        /\ \A p \in ScanRange :
              (Word(bms_locals.d, p) \in {1300, 1312} /\ FirstNear1300(p)) =>
                  bms_locals.pack_idx = p
        /\ (\E p \in ScanRange :
                /\ Word(bms_locals.d, p) = 1313
                /\ FirstNear1300(Len(bms_locals.d))) =>
                  bms_locals.pack_idx = NoPack

\* C21 witness: 1312 found where it stands, past the padding
C21_Witness ==
    /\ bms_locals.ran
    /\ Len(bms_locals.cells) = 4
    /\ bms_locals.total_v = 13000
    /\ bms_locals.pack_idx > 8
    /\ Word(bms_locals.d, bms_locals.pack_idx) = 1312

\* A payload whose only candidate reads 1313 was scanned
C21_MissAt1313 ==
    /\ bms_locals.ran
    /\ bms_locals.total_v = 13000
    /\ bms_locals.pack_idx = NoPack
    /\ \E p \in ScanRange : Word(bms_locals.d, p) = 1313

-----------------------------------------------------------------------------
(* Zero padding after the cells *)

\* No 16 zero bytes in a row from offset i on
NoLongZeroRun(d, i) ==
    \A j \in i..(Len(d) - 16) : \E k \in 0..15 : ByteAt(d, j + k) # 0

\* C22: 20 zero bytes right after the cell block, with bytes after them,
\* move the start of the scan to the first byte after the run; 10 zero
\* bytes in that place (and no longer run further on) leave it at
\* max(2 * seriesCount, 8)
C22_ZeroRunSkip ==
    bms_locals.ran =>
        LET d == bms_locals.d
            block == 2 * Len(bms_locals.cells)
            run == ZeroRunLen(d, block)
        IN  /\ (run = 20 /\ block + run < Len(d)) =>
                    bms_locals.base_start = block + 20
            /\ (run = 10 /\ NoLongZeroRun(d, block + run)) =>
                    /\ bms_locals.base_start = Max(2 * Len(bms_locals.cells), 8)
                    /\ bms_locals.base_start = bms_locals.start

\* C22 witness: the scan began after a run of 20 zeros and found the pack
\* group there
C22_Witness ==
    /\ bms_locals.ran
    /\ ZeroRunLen(bms_locals.d, 2 * Len(bms_locals.cells)) = 20
    /\ bms_locals.start = 8
    /\ bms_locals.base_start = 28
    /\ bms_locals.pack_idx = 28

\* A run of 10 zeros was scanned through
C22_ShortRun ==
    /\ bms_locals.ran
    /\ ZeroRunLen(bms_locals.d, 2 * Len(bms_locals.cells)) = 10
    /\ bms_locals.base_start = 8
    /\ bms_locals.pack_idx = 18

-----------------------------------------------------------------------------
(* MOS status *)

\* The MOS command of the exchange on the port, 0 when it is another one
MosCommand ==
    IF BmsExchanged /\ bms_cmds[Len(bms_cmds)] \in {45, 46}
          /\ port[3].data[4] = bms_cmds[Len(bms_cmds)]
    THEN bms_cmds[Len(bms_cmds)]
    ELSE 0

MosKey == IF MosCommand = 45 THEN "bms_discharge_mos_status" ELSE "bms_charge_mos_status"

\* C23: after the 0x2D and after the 0x2E exchange the state stored is "ON"
\* when the bytes received pass the checksum, are at least 8 and byte 7 is
\* 1; "OFF" when they pass, are at least 8 and byte 7 is another value;
\* "UNKNOWN" when they pass and are fewer than 8; and neither "ON" nor
\* "OFF" when nothing was received or the checksum fails
C23_MosState ==
    MosCommand # 0 =>
        LET rx == BmsReceived
            n == Len(rx)
            accepted == n > 0 /\ SumSeq(SubSeq(rx, 1, n - 1)) % 256 = rx[n]
            state == bms_data[MosKey]
        IN  /\ MosKey \in DOMAIN bms_data
            /\ (accepted /\ n >= 8 /\ rx[8] = 1) => state = "ON"
            /\ (accepted /\ n >= 8 /\ rx[8] # 1) => state = "OFF"
            /\ (accepted /\ n < 8) => state = "UNKNOWN"
            /\ ~accepted => state \notin {"ON", "OFF"}

\* C23 witness: after 0x2E, "OFF" for a byte 7 of 2, the 0x2D answer having
\* failed its checksum with a byte 7 of 1
C23_Witness ==
    /\ MosCommand = 46
    /\ Len(BmsReceived) = 9
    /\ BmsReceived[8] = 2
    /\ bms_data["bms_charge_mos_status"] = "OFF"
    /\ bms_data["bms_discharge_mos_status"] = "UNKNOWN"

-----------------------------------------------------------------------------
(* What a poll cycle returns *)

\* C24: the one dict a poll cycle returns carries a timestamp, from either
\* entry point, also when no device answered
C24_AggregateHasTimestamp ==
    cyc_pc = "done" => "timestamp" \in DOMAIN results

-----------------------------------------------------------------------------
(* MPPT readings *)

\* The register in the bytes of a read: bytes 3 and 4, big-endian
HeardRegister(bytes) == bytes[4] * 256 + bytes[5]

\* The dict of the MPPT reader: its own while it runs, the caller's after
MpptData == IF cyc_pc = "mppt" THEN dev_data ELSE results

\* The stored integer n under key stands for the register divided by 100
\* (signed when asked) or for the register itself
StandsFor(key, n, reg, signed) ==
    LET raw == IF signed /\ reg > 32767 THEN reg - 65536 ELSE reg
    IN  IF key = "mppt_battery_soc"
        THEN n = mppt_denominator(key) * raw
        ELSE 100 * n = mppt_denominator(key) * raw

\* p hundredths is v hundredths times i hundredths, rounded to 2 decimals
IsPower(p, v, i) == 100 * p - v * i <= 50 /\ v * i - 100 * p <= 50

\* C25: every MPPT register read is stored as the claim says (pv voltage, pv
\* current, battery voltage: register / 100; SOC: the register; battery
\* current: the register as signed 16-bit, / 100), nothing is stored for a
\* read that failed, each power is the product of its voltage and current
\* rounded to 2 decimals, and 1960 and 578 give 19.60, 5.78 and 113.29
C25_MpptDecoding ==
    /\ \A k \in 1..Len(heard) :
          LET key == MpptReads[k].key
          IN  IF heard[k] = <<>>
              THEN key \notin DOMAIN MpptData
              ELSE /\ key \in DOMAIN MpptData
                   /\ StandsFor(key, MpptData[key], HeardRegister(heard[k]),
                                key = "mppt_battery_current")
    /\ (cyc_pc = "env" /\ Len(heard) = 5) =>
          /\ "mppt_pv_power" \in DOMAIN results
                <=> (heard[1] # <<>> /\ heard[2] # <<>>)
          /\ "mppt_battery_power" \in DOMAIN results
                <=> (heard[4] # <<>> /\ heard[5] # <<>>)
          /\ "mppt_pv_power" \in DOMAIN results =>
                IsPower(results["mppt_pv_power"], results["mppt_pv_voltage"],
                        results["mppt_pv_current"])
          /\ "mppt_battery_power" \in DOMAIN results =>
                IsPower(results["mppt_battery_power"], results["mppt_battery_voltage"],
                        results["mppt_battery_current"])
          /\ (heard[1] # <<>> /\ HeardRegister(heard[1]) = 1960
                /\ heard[2] # <<>> /\ HeardRegister(heard[2]) = 578) =>
                /\ results["mppt_pv_voltage"] = 1960
                /\ results["mppt_pv_current"] = 578
                /\ results["mppt_pv_power"] = 11329
                /\ mppt_denominator("mppt_pv_power") = 100

\* C25 witness: 19.60 V and 5.78 A read, with a battery current of -1.50 A
C25_Witness ==
    /\ cyc_pc = "env"
    /\ Len(heard) = 5
    /\ {"mppt_pv_power", "mppt_battery_current"} \subseteq DOMAIN results
    /\ results["mppt_pv_voltage"] = 1960
    /\ results["mppt_pv_current"] = 578
    /\ results["mppt_pv_power"] = 11329
    /\ results["mppt_battery_current"] = -150

-----------------------------------------------------------------------------
(* The request on the wire *)

\* C26: the request written is 8 bytes: slave id, function code, the high
\* and the low byte of the start address, the high and the low byte of the
\* count, then the low and the high byte of the CRC-16 of those six; the
\* request 01 03 00 00 00 0A ends with C5 CD
C26_RequestFrame ==
    (rr_pc = "sent" /\ port # <<>>) =>
        LET written == port[3].data
            crc == crc_fold(CRC_INIT, SubSeq(written, 1, 6))
        IN  /\ port[3].op = "write"
            /\ Len(written) = 8
            /\ written[1] = rr_req.slave
            /\ written[2] = rr_req.fc
            /\ written[3] * 256 + written[4] = rr_req.addr
            /\ written[5] * 256 + written[6] = rr_req.count
            /\ written[7] + 256 * written[8] = crc
            /\ \A i \in 1..8 : written[i] \in 0..255
            /\ rr_req = Req(1, 0, 10, 3) => written = <<1, 3, 0, 0, 0, 10, 197, 205>>

\* C26 witness: the request for 65535 registers from address 0x304E of
\* slave 255 is on the wire
C26_Witness ==
    /\ rr_pc = "sent"
    /\ port # <<>>
    /\ rr_req = Req(255, 12366, 65535, 4)
    /\ SubSeq(port[3].data, 1, 6) = <<255, 4, 48, 78, 255, 255>>

-----------------------------------------------------------------------------
(* The BMS request on the wire *)

\* C27: the request of a bms_send exchange of a read is 3D 01 02 c 01 00 00
\* and the sum of these bytes mod 256, for c = 0x27, 0x00, 0x2D, 0x2E in
\* this order: no payload; and the request built for a command c and a
\* payload p is 3D 01 02 c 01 00 len(p), then p, then the sum of all bytes
\* before it mod 256
C27_BmsRequestFrame ==
    /\ BmsExchanged =>
          LET c == bms_cmds[Len(bms_cmds)]
          IN  /\ bms_cmds = SubSeq(<<39, 0, 45, 46>>, 1, Len(bms_cmds))
              /\ port[3].op = "write"
              /\ port[3].data = <<61, 1, 2, c, 1, 0, 0, (61 + 1 + 2 + c + 1) % 256>>
    /\ probe.fn = "bms_request" =>
          LET p == probe.input
              f == probe.framed
              n == Len(p)
          IN  /\ Len(f) = n + 8
              /\ SubSeq(f, 1, 3) = <<61, 1, 2>>
              /\ f[4] \in {39, 0, 45, 46}
              /\ SubSeq(f, 5, 7) = <<1, 0, n>>
              /\ SubSeq(f, 8, n + 7) = p
              /\ f[n + 8] = SumSeq(SubSeq(f, 1, n + 7)) % 256

\* C27 witness: the fourth request of a read, 0x2E, is on the wire
C27_Witness ==
    /\ BmsExchanged
    /\ bms_cmds = <<39, 0, 45, 46>>
    /\ port[3].data = <<61, 1, 2, 46, 1, 0, 0, 111>>

\* A request with a payload of three bytes was built
C27_WithPayload ==
    /\ probe.fn = "bms_request"
    /\ Len(probe.input) = MaxSeqLen
    /\ probe.framed[7] = MaxSeqLen

-----------------------------------------------------------------------------
(* Publishing: MQTTClient.publish_telemetry and MQTTPublisher.publish.        *)
(* The paho network thread runs _on_connect and _on_disconnect while another  *)
(* thread is inside a publish call, so a call is two steps: the test of       *)
(* self.connected, then the building and handing over of the message.         *)

\* No reader call in progress
ReaderIdle ==
    /\ impl = NB
    /\ LinkInit
    /\ BmsIdle
    /\ CycleIdle
    /\ ObsIdle

MaxHanded == 2

MqttClasses == {"MQTTClient", "MQTTPublisher"}

\* Telemetry dicts: each value stands for its JSON text, "<bytes>" for an
\* object json.dumps cannot serialise
Telemetry ==
    { EmptyDict,
      [soc |-> "87"],
      [timestamp |-> "2024-01-01T00:00:00", soc |-> "87"],
      [raw |-> "<bytes>"] }

\* What self.client.publish may do with a message
PublishOutcomes == {"MQTT_ERR_SUCCESS", "MQTT_ERR_NO_CONN", "MQTT_ERR_QUEUE_SIZE", "ValueError"}

\* json.dumps raises TypeError on such a dict
json_dumps_raises(d) == \E k \in DOMAIN d : d[k] = "<bytes>"

\* {"device_id": ..., "timestamp": utcnow, **data}: the keys of data win
telemetry_payload(data) ==
    [k \in {"device_id", "timestamp"} \cup DOMAIN data |->
        IF k \in DOMAIN data THEN data[k]
        ELSE IF k = "device_id" THEN "<device_id>" ELSE "<utcnow>"]

\* The dict whose JSON text the call hands over
publish_payload(cls, data) ==
    IF cls = "MQTTClient" THEN telemetry_payload(data) ELSE data

\* A guard that lets every call through
publish_unguarded(flag) == FALSE

\* if not self.connected: return False
publish_skipped(flag) == ~flag

InitPublish ==
    /\ ReaderIdle
    /\ RelayIdle
    /\ ServiceIdle
    /\ mq_class \in MqttClasses
    /\ connected = FALSE
    /\ pub_pc = "idle"
    /\ pub_data = EmptyDict
    /\ pub_ret = FALSE
    /\ handed = <<>>
    /\ last_callback = "none"

\* _on_connect with rc # 0: MQTTClient clears the flag (mqtt_client), the
\* MQTTPublisher only logs (nubank_complete)
on_connect_refused(class, flag) == IF class = "MQTTClient" THEN FALSE ELSE flag

\* _on_connect(rc): rc = 0 sets the flag (MQTTClient also subscribes and
\* publishes its "online" status, ignoring the outcome); another rc clears the
\* flag in MQTTClient and leaves it alone in MQTTPublisher
OnConnect ==
    /\ mq_class \in MqttClasses
    /\ \E rc \in {0, 5} :
          IF rc = 0
          THEN /\ connected' = TRUE
               /\ last_callback' = "on_connect"
               /\ IF mq_class = "MQTTClient"
                  THEN /\ Len(handed) < MaxHanded
                       /\ \E out \in {"MQTT_ERR_SUCCESS", "ValueError"} :
                             handed' = Append(handed,
                                 [topic |-> "status",
                                  payload |-> [status |-> "online",
                                               timestamp |-> "<utcnow>",
                                               device_id |-> "<device_id>"],
                                  outcome |-> out])
                  ELSE handed' = handed
          ELSE /\ connected' = on_connect_refused(mq_class, connected)
               /\ last_callback' = "on_connect_refused"
               /\ handed' = handed
    /\ UNCHANGED <<mq_class, pub_pc, pub_data, pub_ret>>
    /\ UNCHANGED notPublish

\* _on_disconnect
OnDisconnect ==
    /\ mq_class \in MqttClasses
    /\ connected' = FALSE
    /\ last_callback' = "on_disconnect"
    /\ UNCHANGED <<mq_class, pub_pc, pub_data, pub_ret, handed>>
    /\ UNCHANGED notPublish

\* The call and its first statement: if not self.connected: return False
PublishTest ==
    /\ mq_class \in MqttClasses
    /\ pub_pc \in {"idle", "returned"}
    /\ Len(handed) < MaxHanded
    /\ \E data \in Telemetry :
          /\ pub_data' = data
          /\ IF publish_skipped(connected)
             THEN pub_pc' = "returned" /\ pub_ret' = FALSE
             ELSE pub_pc' = "checked" /\ pub_ret' = pub_ret
    /\ UNCHANGED <<mq_class, connected, handed, last_callback>>
    /\ UNCHANGED notPublish

\* The try block: json.dumps of the payload, self.client.publish(topic, text,
\* qos=1), True on MQTT_ERR_SUCCESS, False on another rc or on an exception
PublishHand ==
    /\ pub_pc = "checked"
    /\ pub_pc' = "returned"
    /\ IF json_dumps_raises(publish_payload(mq_class, pub_data))
       THEN /\ handed' = handed
            /\ pub_ret' = FALSE
       ELSE \E out \in PublishOutcomes :
               /\ handed' = Append(handed,
                      [topic |-> "telemetry",
                       payload |-> publish_payload(mq_class, pub_data),
                       outcome |-> out])
               /\ pub_ret' = (out = "MQTT_ERR_SUCCESS")
    /\ UNCHANGED <<mq_class, connected, pub_data, last_callback>>
    /\ UNCHANGED notPublish

NextPublish ==
    \/ OnConnect
    \/ OnDisconnect
    \/ PublishTest
    \/ PublishHand

\* Publish calls of one MQTT object while the broker connection comes and goes
SpecPublish == InitPublish /\ [][NextPublish]_vars

\* C28: a publish call that finds self.connected false returns False and hands
\* no message to the broker client; a publish call returns True only when it
\* handed its message over and the broker client answered MQTT_ERR_SUCCESS.
C28_PublishDisconnected ==
    [][ /\ ( /\ pub_pc \in {"idle", "returned"}
              /\ ~connected
              /\ <<pub_pc, pub_data, pub_ret>>' # <<pub_pc, pub_data, pub_ret>> )
           => pub_pc' = "returned" /\ pub_ret' = FALSE /\ handed' = handed
        /\ (handed' # handed /\ handed'[Len(handed')].topic = "telemetry")
           => pub_pc = "checked"
        /\ (pub_pc' = "returned" /\ pub_pc # "returned" /\ pub_ret')
           => /\ pub_pc = "checked"
              /\ Len(handed') = Len(handed) + 1
              /\ handed'[Len(handed')] =
                    [topic |-> "telemetry",
                     payload |-> publish_payload(mq_class, pub_data),
                     outcome |-> "MQTT_ERR_SUCCESS"]
      ]_vars

\* C28 witness: a call made while disconnected has returned False after an
\* earlier call of the same object had its message accepted
C28_Witness ==
    /\ pub_pc = "returned"
    /\ ~pub_ret
    /\ ~connected
    /\ Len(handed) = 1
    /\ handed[1].topic = "telemetry"
    /\ handed[1].outcome = "MQTT_ERR_SUCCESS"

\* The flag was cleared between the test and the handing over: the message
\* is handed to the broker client although self.connected is false by then
C28_DisconnectedMeanwhile ==
    /\ pub_pc = "returned"
    /\ ~connected
    /\ Len(handed) = 1
    /\ handed[1].topic = "telemetry"
    /\ handed[1].outcome = "MQTT_ERR_NO_CONN"

-----------------------------------------------------------------------------
(* Relay commands: MQTTClient._on_message and _handle_relay_command.          *)
(* A JSON value is a pair of its kind and its content; an object keeps its    *)
(* entries in the order json.loads gives them to the dict.                    *)

JStr(s) == <<"str", s>>

JBool(b) == <<"bool", b>>

JNum(n) == <<"num", n>>

JArr(items) == <<"arr", items>>

JObj(entries) == <<"obj", entries>>

JSONDecodeError == <<"JSONDecodeError", <<>> >>

\* The payloads a broker may deliver
Payloads ==
    { "{\"relay\":\"load1\",\"state\":true}",
      "{\"relay\":\"load3\",\"state\":0}",
      "{\"relay\":\"load4\",\"state\":true}",
      "{\"relay\":\"LOAD1\",\"state\":true}",
      "{\"relay\":\"load2\"}",
      "{\"relay\":\"load9\",\"state\":true,\"relays\":{\"load1\":true}}",
      "{\"relays\":{\"load1\":true,\"load2\":false,\"load3\":true}}",
      "{\"relays\":{\"load3\":\"off\",\"pump\":true,\"load1\":0}}",
      "{\"relays\":{\"load1\":true,\"load1\":false}}",
      "{\"relays\":{}}",
      "{\"relays\":[\"load1\"]}",
      "{\"relay\":\"load1\",\"state\":true",
      "load1 on",
      "[\"relay\",\"state\"]",
      "{}",
      "5",
      "<bytes ff fe>" }

\* msg.payload.decode('utf-8') raises UnicodeDecodeError
decode_raises(payload) == payload = "<bytes ff fe>"

\* json.loads(payload): the value, or JSONDecodeError
json_loads(payload) ==
    CASE payload = "{\"relay\":\"load1\",\"state\":true}" ->
            JObj(<< <<"relay", JStr("load1")>>, <<"state", JBool(TRUE)>> >>)
      [] payload = "{\"relay\":\"load3\",\"state\":0}" ->
            JObj(<< <<"relay", JStr("load3")>>, <<"state", JNum(0)>> >>)
      [] payload = "{\"relay\":\"load4\",\"state\":true}" ->
            JObj(<< <<"relay", JStr("load4")>>, <<"state", JBool(TRUE)>> >>)
      [] payload = "{\"relay\":\"LOAD1\",\"state\":true}" ->
            JObj(<< <<"relay", JStr("LOAD1")>>, <<"state", JBool(TRUE)>> >>)
      [] payload = "{\"relay\":\"load2\"}" ->
            JObj(<< <<"relay", JStr("load2")>> >>)
      [] payload = "{\"relay\":\"load9\",\"state\":true,\"relays\":{\"load1\":true}}" ->
            JObj(<< <<"relay", JStr("load9")>>, <<"state", JBool(TRUE)>>,
                    <<"relays", JObj(<< <<"load1", JBool(TRUE)>> >>)>> >>)
      [] payload = "{\"relays\":{\"load1\":true,\"load2\":false,\"load3\":true}}" ->
            JObj(<< <<"relays", JObj(<< <<"load1", JBool(TRUE)>>,
                                        <<"load2", JBool(FALSE)>>,
                                        <<"load3", JBool(TRUE)>> >>)>> >>)
      [] payload = "{\"relays\":{\"load3\":\"off\",\"pump\":true,\"load1\":0}}" ->
            JObj(<< <<"relays", JObj(<< <<"load3", JStr("off")>>,
                                        <<"pump", JBool(TRUE)>>,
                                        <<"load1", JNum(0)>> >>)>> >>)
      [] payload = "{\"relays\":{\"load1\":true,\"load1\":false}}" ->
            JObj(<< <<"relays", JObj(<< <<"load1", JBool(FALSE)>> >>)>> >>)
      [] payload = "{\"relays\":{}}" ->
            JObj(<< <<"relays", JObj(<<>>)>> >>)
      [] payload = "{\"relays\":[\"load1\"]}" ->
            JObj(<< <<"relays", JArr(<<JStr("load1")>>)>> >>)
      [] payload = "[\"relay\",\"state\"]" ->
            JArr(<<JStr("relay"), JStr("state")>>)
      [] payload = "{}" -> JObj(<<>>)
      [] payload = "5" -> JNum(5)
      [] OTHER -> JSONDecodeError

Kind(v) == v[1]

\* The entries of an object, the items of an array
Content(v) == v[2]

\* key in v, for a dict (its keys) or a list (its items)
py_in(key, v) ==
    IF Kind(v) = "obj"
    THEN \E i \in 1..Len(Content(v)) : Content(v)[i][1] = key
    ELSE \E i \in 1..Len(Content(v)) : Content(v)[i] = JStr(key)

\* v[key] of a dict that has the key
py_get(v, key) ==
    LET i == CHOOSE j \in 1..Len(Content(v)) : Content(v)[j][1] = key
    IN  Content(v)[i][2]

\* bool(v)
py_bool(v) ==
    CASE Kind(v) = "bool" -> Content(v)
      [] Kind(v) = "num" -> Content(v) # 0
      [] Kind(v) = "str" -> Content(v) # ""
      [] OTHER -> Content(v) # <<>>

\* A name list that also lets "pump" through
RelayNamesAndPump == {"load1", "load2", "load3", "pump"}

\* ["load1", "load2", "load3"]
RelayNames == {"load1", "load2", "load3"}

\* What _handle_relay_command does with the parsed value before any loop:
\* the calls it makes at once and the entries it will loop over.  An
\* exception (TypeError, AttributeError) is caught by its except clause.
handle_relay_command(data, callback) ==
    LET nothing == [calls |-> <<>>, entries |-> <<>>]
    IN  IF Kind(data) \notin {"obj", "arr"}
        THEN nothing                                  \* "relay" in data raises
        ELSE IF py_in("relay", data) /\ py_in("state", data)
        THEN IF Kind(data) = "arr"
             THEN nothing                             \* data["relay"] raises
             ELSE LET relay_name == py_get(data, "relay")
                      state == py_bool(py_get(data, "state"))
                  IN  IF relay_name \notin { JStr(r) : r \in RelayNames }
                      THEN nothing
                      ELSE IF callback # "none"
                      THEN [calls |-> << <<Content(relay_name), state>> >>,
                            entries |-> <<>>]
                      ELSE nothing
        ELSE IF py_in("relays", data)
        THEN IF Kind(data) = "arr"
             THEN nothing                             \* data["relays"] raises
             ELSE LET relays == py_get(data, "relays")
                  IN  IF Kind(relays) # "obj"
                      THEN nothing                    \* relays.items() raises
                      ELSE [calls |-> <<>>, entries |-> Content(relays)]
        ELSE nothing

Topics == {"command/relay", "command/upload"}

InitRelay ==
    /\ ReaderIdle
    /\ ServiceIdle
    /\ mq_class = "MQTTClient"
    /\ connected = TRUE
    /\ pub_pc = "idle"
    /\ pub_data = EmptyDict
    /\ pub_ret = FALSE
    /\ handed = <<>>
    /\ last_callback = "on_connect"
    /\ relay_callback \in {"none", "returns_true", "returns_false"}
    /\ rx_msg = NoMessage
    /\ relays_left = <<>>
    /\ invoked = <<>>

\* _on_message up to the for loop of a multi-relay command
OnMessage ==
    /\ relays_left = <<>>
    /\ \E topic \in Topics, payload \in Payloads :
          /\ rx_msg' = [topic |-> topic, payload |-> payload]
          /\ IF decode_raises(payload) \/ json_loads(payload) = JSONDecodeError
                \/ topic # "command/relay"
             THEN invoked' = <<>> /\ relays_left' = <<>>
             ELSE LET h == handle_relay_command(json_loads(payload), relay_callback)
                  IN  invoked' = h.calls /\ relays_left' = h.entries
    /\ UNCHANGED relay_callback
    /\ UNCHANGED notRelay

\* One turn of: for relay_name, state in relays.items()
RelayEntry ==
    /\ relays_left # <<>>
    /\ LET relay_name == Head(relays_left)[1]
           state == Head(relays_left)[2]
       IN  invoked' = IF relay_name \in RelayNames /\ relay_callback # "none"
                      THEN Append(invoked, <<relay_name, py_bool(state)>>)
                      ELSE invoked
    /\ relays_left' = Tail(relays_left)
    /\ UNCHANGED <<relay_callback, rx_msg>>
    /\ UNCHANGED notRelay

NextRelay ==
    \/ OnMessage
    \/ RelayEntry

\* Messages arriving at one MQTTClient
SpecRelay == InitRelay /\ [][NextRelay]_vars

\* The payload of the message is JSON text
ValidJson ==
    ~decode_raises(rx_msg.payload) /\ json_loads(rx_msg.payload) # JSONDecodeError

\* {"relay": ..., "state": ...}
SingleRelay(data) ==
    Kind(data) = "obj" /\ py_in("relay", data) /\ py_in("state", data)

\* {"relays": {...}}
MultiRelay(data) ==
    /\ Kind(data) = "obj"
    /\ ~SingleRelay(data)
    /\ py_in("relays", data)
    /\ Kind(py_get(data, "relays")) = "obj"

\* How often the callback was invoked with this name for the message
TimesInvoked(name) == Cardinality({ i \in 1..Len(invoked) : invoked[i][1] = name })

C29_InvalidName ==
    /\ rx_msg = [topic |-> "command/relay",
                 payload |-> "{\"relay\":\"load4\",\"state\":true}"]
    /\ relay_callback = "returns_true"
    /\ invoked = <<>>

-----------------------------------------------------------------------------
(* The service: NuBankService.run, _signal_handler, shutdown, the daemon     *)
(* thread modbus_mqtt_loop and the __main__ block.  The clock is read in      *)
(* whole hours and only moves forward; it may move between any two            *)
(* statements.  The two threads share self.running and the serial port of     *)
(* the reader; nothing in the code orders their steps.                        *)

AUTO_OFF_HOURS == 2

MaxNow == 4

\* The players started in one run: the player ends by itself, or start_video
\* is called from outside run(), only while fewer have been started
MaxLaunches == 3

\* self.auto_off_time
auto_off_time == start_time + AUTO_OFF_HOURS

\* The statements of run() before its loop, in order
StartupSteps ==
    <<"modbus.connect", "mqtt.connect", "relays_on", "rotate_screen",
      "start_video", "modbus_thread.start">>

StepAfter(step) ==
    LET i == CHOOSE j \in 1..Len(StartupSteps) : StartupSteps[j] = step
    IN  IF i < Len(StartupSteps) THEN StartupSteps[i + 1] ELSE "while"

\* A start_video that does not look at the player it already has
player_running_never(player) == FALSE

\* self.player_process and self.player_process.poll() is None
player_running(player) == player = "alive"

\* start_video(): nothing if the player is alive; otherwise Popen, which
\* sets player_process or raises (caught) and leaves it as it was
start_video(player) ==
    IF player_running(player) THEN {player} ELSE {"alive", player}

\* Popen was called and succeeded: one more player process
launched(player, next) == ~player_running(player) /\ next = "alive"

\* self.start_video()
StartVideo ==
    /\ player_process' \in start_video(player_process)
    /\ alive_players' = alive_players +
            (IF launched(player_process, player_process') THEN 1 ELSE 0)
    /\ launches' = launches +
            (IF launched(player_process, player_process') THEN 1 ELSE 0)

\* self.stop_video(): terminate (kill after 5 s) the player, if any
StopVideo ==
    /\ player_process' = "none"
    /\ alive_players' = alive_players - (IF player_process = "alive" THEN 1 ELSE 0)
    /\ UNCHANGED launches

\* ModbusReader.connect(): serial.Serial(...) opens the port, or raises
\* (caught) and self.serial stays None
modbus_connect == {"open", "none"}

\* ModbusReader.disconnect(): close the port if there is one and it is open
modbus_disconnect(ser) == IF ser = "open" THEN "closed" ELSE ser

\* The state after __init__: running, start_time read from the clock, relay
\* pins high (off), signal handlers installed, no thread yet
InitService ==
    /\ ReaderIdle
    /\ MqttIdle
    /\ RelayIdle
    /\ svc_pc = StartupSteps[1]
    /\ running = TRUE
    /\ start_time \in 0..1
    /\ now = start_time
    /\ player_process = "none"
    /\ relay_pins = "off"
    /\ shutdowns = 0
    /\ thr_pc = "unstarted"
    /\ serial = "none"
    /\ last_read = 0
    /\ alive_players = 0
    /\ launches = 0

\* One of the statements 1 to 6 of run()
RunStartup ==
    /\ \E i \in 1..Len(StartupSteps) : svc_pc = StartupSteps[i]
    /\ svc_pc' = StepAfter(svc_pc)
    /\ serial' \in (IF svc_pc = "modbus.connect" THEN modbus_connect ELSE {serial})
    /\ relay_pins' = IF svc_pc = "relays_on" THEN "on" ELSE relay_pins
    /\ IF svc_pc = "start_video"
       THEN StartVideo
       ELSE UNCHANGED <<player_process, alive_players, launches>>
    /\ thr_pc' = IF svc_pc = "modbus_thread.start" THEN "while" ELSE thr_pc
    /\ UNCHANGED <<running, now, start_time, shutdowns, last_read>>
    /\ UNCHANGED notService

\* while self.running:
WhileTest ==
    /\ svc_pc = "while"
    /\ svc_pc' = IF running THEN "video_check" ELSE "shutdown"
    /\ UNCHANGED <<running, now, start_time, player_process, relay_pins, shutdowns>>
    /\ UNCHANGED <<thrVars, alive_players, launches, notService>>

\* if self.player_process and self.player_process.poll() is not None:
\*     self.start_video()
VideoCheck ==
    /\ svc_pc = "video_check"
    /\ svc_pc' = "time_check"
    /\ IF player_process = "exited"
       THEN StartVideo
       ELSE UNCHANGED <<player_process, alive_players, launches>>
    /\ UNCHANGED <<running, now, start_time, relay_pins, shutdowns>>
    /\ UNCHANGED <<thrVars, notService>>

\* A test that waits until the time has passed
auto_off_passed(t, off) == t > off

\* now >= self.auto_off_time
auto_off_reached(t, off) == t >= off

\* now = datetime.now(); if now >= self.auto_off_time: break; the status log
TimeCheck ==
    /\ svc_pc = "time_check"
    /\ svc_pc' = IF auto_off_reached(now, auto_off_time) THEN "shutdown" ELSE "sleep"
    /\ UNCHANGED <<running, now, start_time, player_process, relay_pins, shutdowns>>
    /\ UNCHANGED <<thrVars, alive_players, launches, notService>>

\* time.sleep(5)
Sleep ==
    /\ svc_pc = "sleep"
    /\ svc_pc' = "while"
    /\ UNCHANGED <<running, now, start_time, player_process, relay_pins, shutdowns>>
    /\ UNCHANGED <<thrVars, alive_players, launches, notService>>

\* self.shutdown(), first part: stop_video(), time.sleep(1), relays_off()
Shutdown ==
    /\ svc_pc = "shutdown"
    /\ svc_pc' = "disconnect"
    /\ StopVideo
    /\ relay_pins' = "off"
    /\ shutdowns' = shutdowns + 1
    /\ UNCHANGED <<running, now, start_time>>
    /\ UNCHANGED <<thrVars, notService>>

\* self.shutdown(), second part: modbus.disconnect(), mqtt.disconnect(),
\* GPIO.cleanup(); then run() returns
ShutdownDisconnect ==
    /\ svc_pc = "disconnect"
    /\ svc_pc' = "returned"
    /\ serial' = modbus_disconnect(serial)
    /\ UNCHANGED <<running, now, start_time, player_process, relay_pins, shutdowns>>
    /\ UNCHANGED <<thr_pc, last_read, alive_players, launches, notService>>

\* A finally block that leaves the pins as they are
finally_skipped(pins) == pins

\* __main__, finally: every relay pin is set up as an output and driven HIGH
finally_pins(pins) == "off"

\* __main__ after run() has returned or raised: the except clauses log, the
\* finally block drives the pins, the process ends and its daemon thread
\* with it
MainFinally ==
    /\ svc_pc \in {"returned", "raised"}
    /\ svc_pc' = "exited"
    /\ relay_pins' = finally_pins(relay_pins)
    /\ UNCHANGED <<running, now, start_time, player_process, shutdowns>>
    /\ UNCHANGED <<thrVars, alive_players, launches, notService>>

\* _signal_handler, on SIGTERM or SIGINT, while the process lives
SignalHandler ==
    /\ svc_pc # "exited"
    /\ running' = FALSE
    /\ UNCHANGED <<svc_pc, now, start_time, player_process, relay_pins, shutdowns>>
    /\ UNCHANGED <<thrVars, alive_players, launches, notService>>

\* The clock moves on
Tick ==
    /\ now < MaxNow
    /\ now' = now + 1
    /\ UNCHANGED <<svc_pc, running, start_time, player_process, relay_pins, shutdowns>>
    /\ UNCHANGED <<thrVars, alive_players, launches, notService>>

\* The video player ends by itself
PlayerExits ==
    /\ player_process = "alive"
    /\ launches < MaxLaunches
    /\ player_process' = "exited"
    /\ alive_players' = alive_players - 1
    /\ UNCHANGED launches
    /\ UNCHANGED <<svc_pc, running, now, start_time, relay_pins, shutdowns>>
    /\ UNCHANGED <<thrVars, notService>>

\* What a step of the daemon thread leaves alone
notThread ==
    <<svc_pc, running, now, start_time, player_process, relay_pins, shutdowns,
      alive_players, launches, notService>>

\* modbus_mqtt_loop, while self.running:
ThreadWhile ==
    /\ svc_pc # "exited"
    /\ thr_pc = "while"
    /\ thr_pc' = IF running THEN "interval" ELSE "ended"
    /\ UNCHANGED <<serial, last_read, notThread>>

\* if time.time() - last_read >= MODBUS_READ_INTERVAL: with last_read = 0
\* the test passes; afterwards it passes when five minutes have gone by
ThreadInterval ==
    /\ svc_pc # "exited"
    /\ thr_pc = "interval"
    /\ \E due \in (IF last_read = 0 THEN {TRUE} ELSE BOOLEAN) :
            thr_pc' = IF due THEN "read_all" ELSE "sleep"
    /\ UNCHANGED <<serial, last_read, notThread>>

\* data = self.modbus.read_all(), its first request: with no open port each
\* read returns None (or raises inside read_bms_full, caught) without one
ThreadReadAll ==
    /\ svc_pc # "exited"
    /\ thr_pc = "read_all"
    /\ thr_pc' = IF serial = "open" THEN "exchanging" ELSE "publish"
    /\ UNCHANGED <<serial, last_read, notThread>>

\* read_all() after its last read: the readings it got and the metadata
ThreadCycleEnds ==
    /\ svc_pc # "exited"
    /\ thr_pc = "exchanging"
    /\ thr_pc' = "publish"
    /\ UNCHANGED <<serial, last_read, notThread>>

\* self.mqtt.publish(data)
ThreadPublish ==
    /\ svc_pc # "exited"
    /\ thr_pc = "publish"
    /\ thr_pc' = "save"
    /\ UNCHANGED <<serial, last_read, notThread>>

\* open(telemetry.json, 'w'), json.dump, last_read = time.time(); an error
\* of the file system goes to the except clause and last_read stays
ThreadSave ==
    /\ svc_pc # "exited"
    /\ thr_pc = "save"
    /\ thr_pc' = "sleep"
    /\ last_read' \in {1, last_read}
    /\ UNCHANGED <<serial, notThread>>

\* time.sleep(10)
ThreadSleep ==
    /\ svc_pc # "exited"
    /\ thr_pc = "sleep"
    /\ thr_pc' = "while"
    /\ UNCHANGED <<serial, last_read, notThread>>

\* The statements of the main thread
ServiceStep ==
    \/ RunStartup
    \/ WhileTest
    \/ VideoCheck
    \/ TimeCheck
    \/ Sleep
    \/ Shutdown
    \/ ShutdownDisconnect
    \/ MainFinally

\* The statements of the daemon thread
ThreadStep ==
    \/ ThreadWhile
    \/ ThreadInterval
    \/ ThreadReadAll
    \/ ThreadCycleEnds
    \/ ThreadPublish
    \/ ThreadSave
    \/ ThreadSleep

NextService ==
    \/ ServiceStep
    \/ ThreadStep
    \/ SignalHandler
    \/ Tick
    \/ PlayerExits

\* One run of the service
SpecService == InitService /\ [][NextService]_vars

\* Every statement of run() and shutdown() returns: the connects and
\* rotate_screen have timeouts or catch their errors, Popen and poll() do not
\* wait, the sleeps are finite, stop_video waits at most 5 s before kill().
\* So the main thread always takes its next step.
SpecServiceLive == SpecService /\ WF_vars(ServiceStep)

\* The first test after the condition leaves the loop, and only the statement
\* after the loop runs shutdown()
LeavesAtNextTest ==
    /\ (svc_pc = "while" /\ ~running /\ svc_pc' # svc_pc) =>
            (svc_pc' = "shutdown")
    /\ (svc_pc = "time_check" /\ now >= start_time + AUTO_OFF_HOURS /\ svc_pc' # svc_pc) =>
            (svc_pc' = "shutdown")
    /\ (shutdowns' # shutdowns) => (svc_pc = "shutdown")

\* C30: once the clock has reached start_time + AUTO_OFF_HOURS, or a signal
\* has set running to false, shutdown() eventually runs; the loop leaves at
\* the first test it makes after that (the while test for running, the time
\* test for the clock); and shutdown() runs exactly once, never twice and
\* always before run() returns.
C30_ShutdownReached ==
    /\ [](/\ shutdowns <= 1
          /\ (svc_pc \in {"disconnect", "returned", "exited"}) <=> (shutdowns = 1))
    /\ [][LeavesAtNextTest]_vars
    /\ (~running \/ now >= start_time + AUTO_OFF_HOURS)
          ~> (shutdowns = 1 /\ svc_pc \in {"returned", "exited"})

\* C30 witness: the two hours ran out with no signal, and run() has returned
\* after one shutdown()
C30_Witness ==
    /\ svc_pc = "returned"
    /\ shutdowns = 1
    /\ running
    /\ now >= start_time + AUTO_OFF_HOURS
    /\ relay_pins = "off"

\* A signal ended the run before the two hours were over
C30_BySignal ==
    /\ svc_pc = "returned"
    /\ shutdowns = 1
    /\ ~running
    /\ now < start_time + AUTO_OFF_HOURS

-----------------------------------------------------------------------------
(* Zero padding in front of a pack voltage whose low byte is zero *)

\* The bytes of d from offset a up to, not including, offset b are all zero
ZerosBetween(d, a, b) == \A k \in a..(b - 1) : ByteAt(d, k) = 0

\* C31: when at least 16 zero bytes lie between the scan start and an
\* in-window pack voltage that has at least 8 bytes after it, the pack index
\* is the offset of that pack voltage, also when its low byte is 0x00
C31_ZeroRunKeepsPack ==
    bms_locals.ran =>
        LET d == bms_locals.d
            s == bms_locals.start
        IN  \A p \in (s + 16)..(Len(d) - 10) :
                ( /\ ZerosBetween(d, s, p)
                  /\ Word(d, p) >= bms_locals.v_guess - 12
                  /\ Word(d, p) <= bms_locals.v_guess + 12 )
                => bms_locals.pack_idx = p

\* The same for the pack voltages whose low byte is not zero
C31_NonZeroLowByte ==
    bms_locals.ran =>
        LET d == bms_locals.d
            s == bms_locals.start
        IN  \A p \in (s + 16)..(Len(d) - 10) :
                ( /\ ZerosBetween(d, s, p)
                  /\ ByteAt(d, p) # 0
                  /\ Word(d, p) >= bms_locals.v_guess - 12
                  /\ Word(d, p) <= bms_locals.v_guess + 12 )
                => bms_locals.pack_idx = p

\* Four cells of 3.200 V, 16 zeros, a pack voltage of 1280 (bytes 00 05): the
\* scan began at the 05 and found no pack
C31_PackHidden ==
    /\ bms_locals.ran
    /\ bms_locals.d = CellBlock(<<3200, 3200, 3200, 3200>>) \o Repeat(0, 16)
                          \o PackGroup(1280, 150, 87, 100) \o <<7, 7>>
    /\ bms_locals.base_start = 25
    /\ bms_locals.pack_idx = NoPack

\* The neighbouring pack voltage 1281 (bytes 01 05) was found at its offset
C31_PackFound ==
    /\ bms_locals.ran
    /\ bms_locals.d = CellBlock(<<3200, 3200, 3200, 3200>>) \o Repeat(0, 16)
                          \o PackGroup(1281, 150, 87, 100) \o <<7, 7>>
    /\ bms_locals.base_start = 24
    /\ bms_locals.pack_idx = 24

-----------------------------------------------------------------------------
(* How many registers a call returns *)

\* C32: a call that returns registers returns at most the requested count,
\* and every returned register is made of two bytes that lie before the two
\* trailing CRC bytes of the response, whatever the byteCount field says
C32_NoExtraRegisters ==
    (Returned /\ rr_result.ret = "regs") =>
        /\ Len(rr_result.regs) <= rr_req.count
        /\ 3 + 2 * Len(rr_result.regs) <= Len(response) - 2

\* The same for the responses whose byteCount is at most twice the requested
\* count and leaves room for the CRC
C32_WithinByteCount ==
    ( /\ Returned
      /\ rr_result.ret = "regs"
      /\ ByteAt(Bytes(response), 2) <= 2 * rr_req.count
      /\ 3 + ByteAt(Bytes(response), 2) <= Len(response) - 2 ) =>
        /\ Len(rr_result.regs) <= rr_req.count
        /\ 3 + 2 * Len(rr_result.regs) <= Len(response) - 2

\* One register was asked for; 01 04 04 12 34 and a correct CRC came back,
\* and the call returned two registers, the second being the CRC bytes
C32_CrcAsRegister ==
    /\ Returned
    /\ impl = MR
    /\ rr_req.count = 1
    /\ Bytes(response) = WithCrc(<<1, 4, 4, 18, 52>>)
    /\ rr_result.ret = "regs"
    /\ Len(rr_result.regs) = 2
    /\ rr_result.regs[2] = 256 * Bytes(response)[6] + Bytes(response)[7]

-----------------------------------------------------------------------------
(* The pack group lies inside the payload *)

\* C33: when the locator has found a pack index p, p + 7 < len(payload): the
\* voltage (p, p+1), the current (p+2, p+3), SOC (p+6) and SOH (p+7) are read
\* from bytes of the payload, the read ends without an exception and with
\* its pack fields stored, and SOC and SOH come from the bytes at p+6 and
\* p+7, not from the default 255 for an offset outside the payload
C33_PackGroupInside ==
    (bms_locals.ran /\ bms_locals.pack_idx # NoPack) =>
        LET d == bms_locals.d
            p == bms_locals.pack_idx
        IN  /\ p >= 0
            /\ p + 7 < Len(d)
            /\ soc_candidate(d, p + 6) = d[p + 7]
            /\ soc_candidate(d, p + 7) = d[p + 8]
            /\ {"bms_battery_voltage", "bms_battery_current", "bms_battery_soc",
                "bms_battery_soh"} \subseteq DOMAIN bms_data
            /\ bms_data["bms_battery_soc"] = (IF d[p + 7] <= 100 THEN d[p + 7] ELSE 0)
            /\ bms_data["bms_battery_soh"] = (IF d[p + 8] <= 100 THEN d[p + 8] ELSE 0)

\* C33 witness: the pack group was found at the last offset the scan covers,
\* 9 bytes before the end of the payload
C33_Witness ==
    /\ bms_locals.ran
    /\ bms_locals.pack_idx # NoPack
    /\ bms_locals.pack_idx = Len(bms_locals.d) - 9
    /\ bms_data["bms_battery_soc"] = 87
    /\ bms_data["bms_battery_soh"] = 100

\* An in-window value with four bytes after it was not taken for the pack
C33_CutGroupMissed ==
    /\ bms_locals.ran
    /\ bms_locals.d \in CutGroupPayloads
    /\ bms_locals.pack_idx = NoPack


-----------------------------------------------------------------------------
(* The two threads of the service and the serial port *)

\* The daemon thread is between the first request and the last read of a
\* read_all() on an open port
InCycle == thr_pc = "exchanging"

\* C34: no step closes the serial port while the daemon thread is between
\* the first request and the last read of a read_all cycle
C34_NoCloseDuringCycle ==
    [][(serial = "open" /\ serial' = "closed") => ~InCycle]_vars

\* Only shutdown()'s modbus.disconnect() closes the port
C34_ClosedByShutdown ==
    [][(serial = "open" /\ serial' = "closed") => svc_pc = "disconnect"]_vars

\* The port was closed under a cycle that has not made its last read
C34_ClosedMidCycle ==
    /\ InCycle
    /\ serial = "closed"
    /\ svc_pc = "returned"

\* A step of the daemon thread that calls read_all(), publishes, or opens
\* telemetry.json for writing
ThreadActs ==
    /\ thr_pc \in {"read_all", "publish", "save"}
    /\ thr_pc' # thr_pc

\* C35: once shutdown() has been entered, the daemon thread starts no poll
\* cycle, publishes nothing and writes no telemetry file
C35_QuietAfterShutdown ==
    [][shutdowns >= 1 => ~ThreadActs]_vars

\* After a signal the thread ends at its next while test: it starts no
\* cycle that it had not decided on before the signal
C35_SignalStopsNextTest ==
    [][(~running /\ thr_pc = "while" /\ thr_pc' # thr_pc) => thr_pc' = "ended"]_vars

\* The deadline ended the main loop, self.running is still true, and the
\* thread is about to call read_all() after shutdown() has returned
C35_CycleAfterDeadline ==
    /\ running
    /\ svc_pc = "returned"
    /\ thr_pc = "read_all"
    /\ last_read = 1


-----------------------------------------------------------------------------
(* The relay outputs over the life of the service, exceptions included *)

\* The calls of run() and shutdown() that are outside any try: GPIO.output
\* in relays_on and relays_off, Thread.start, kill() in stop_video's handler,
\* serial.close, the broker's loop_stop and disconnect, GPIO.cleanup
RaisingSteps == {"relays_on", "modbus_thread.start", "shutdown", "disconnect"}

\* An exception leaves run(): a relays_on or relays_off that raised has
\* driven the pins before the failing one, a shutdown() that raised has done
\* the calls before the failing one
RunRaises ==
    /\ svc_pc \in RaisingSteps
    /\ svc_pc' = "raised"
    /\ relay_pins' \in
            CASE svc_pc = "relays_on" -> {"off", "partial"}
              [] svc_pc = "shutdown" -> {relay_pins, "partial"}
              [] OTHER -> {relay_pins}
    /\ shutdowns' = IF svc_pc = "shutdown" THEN shutdowns + 1 ELSE shutdowns
    /\ IF svc_pc = "shutdown"
       THEN StopVideo \/ UNCHANGED <<player_process, alive_players, launches>>
       ELSE UNCHANGED <<player_process, alive_players, launches>>
    /\ serial' \in (IF svc_pc = "disconnect"
                    THEN {serial, modbus_disconnect(serial)}
                    ELSE {serial})
    /\ UNCHANGED <<running, now, start_time, thr_pc, last_read, notService>>

NextFaulty ==
    \/ NextService
    \/ RunRaises

\* One run of the service in which calls may raise out of run()
SpecServiceFaulty == InitService /\ [][NextFaulty]_vars

\* run() has not reached relays_on() yet
BeforeRelaysOn == svc_pc \in {"modbus.connect", "mqtt.connect", "relays_on"}

\* run() has returned, or the process has ended after run() returned or raised
Stopped == svc_pc \in {"returned", "exited"}

C36_RaisedWithRelaysOn ==
    /\ svc_pc = "raised"
    /\ relay_pins = "on"


-----------------------------------------------------------------------------
(* The connection flag after the broker's callbacks *)

\* C37: after any sequence of broker callbacks, connected is true exactly
\* when the most recent callback was an on_connect with rc = 0, in MQTTClient
\* and in MQTTPublisher
C37_FlagFollowsLastCallback ==
    (mq_class \in MqttClasses /\ last_callback # "none") =>
        (connected <=> last_callback = "on_connect")

\* The same for MQTTClient alone
C37_ClientFlag ==
    (mq_class = "MQTTClient" /\ last_callback # "none") =>
        (connected <=> last_callback = "on_connect")

\* In both classes the flag is false after an on_disconnect and true after
\* an on_connect with rc = 0
C37_SetAndCleared ==
    /\ last_callback = "on_disconnect" => ~connected
    /\ last_callback = "on_connect" => connected

\* MQTTPublisher: the last callback was a refused connection and the flag is
\* still true
C37_RefusedButConnected ==
    /\ mq_class = "MQTTPublisher"
    /\ last_callback = "on_connect_refused"
    /\ connected


-----------------------------------------------------------------------------
(* The MPPT reader when some of its reads fail *)

\* read_registers returned at least one register for what it heard
ReadSucceeded(bytes) == truthy(parse_response(impl, bytes))

\* The request of the k-th read of the MPPT reader, as written
MpptRequest(k) ==
    build_request(MpptReads[k].req.slave, MpptReads[k].req.addr,
                  MpptReads[k].req.count, MpptReads[k].req.fc)

\* C38: the MPPT reader requests each of its five registers in turn whatever
\* the earlier reads gave; a field is in its dict exactly when the read of
\* its own register gave a register; each power is there exactly when its
\* voltage and its current are
C38_PartialMpptReads ==
    /\ Len(issued) = Len(heard)
    /\ Len(issued) = (IF cyc_pc = "mppt" THEN cyc_reads ELSE Len(MpptReads))
    /\ \A k \in 1..Len(issued) :
          /\ issued[k] = MpptRequest(k)
          /\ MpptReads[k].key \in DOMAIN MpptData <=> ReadSucceeded(heard[k])
    /\ cyc_pc = "mppt" =>
          {"mppt_pv_power", "mppt_battery_power"} \cap DOMAIN MpptData = {}
    /\ cyc_pc = "env" =>
          /\ "mppt_pv_power" \in DOMAIN results
                <=> {"mppt_pv_voltage", "mppt_pv_current"} \subseteq DOMAIN results
          /\ "mppt_battery_power" \in DOMAIN results
                <=> {"mppt_battery_voltage", "mppt_battery_current"} \subseteq DOMAIN results

\* C38 witness: the first read got no answer and the third an answer that
\* read_registers did not take; the other three registers are there, with the battery power and
\* without the pv power, after five requests
C38_Witness ==
    /\ cyc_pc = "env"
    /\ Len(issued) = 5
    /\ heard[1] = <<>>
    /\ ~ReadSucceeded(heard[3])
    /\ heard[3] # <<>>
    /\ DOMAIN results = {"mppt_pv_current", "mppt_battery_voltage",
                         "mppt_battery_current", "mppt_battery_power"}

\* Every read failed: five requests were made and the dict is empty
C38_AllFailed ==
    /\ cyc_pc = "env"
    /\ Len(issued) = 5
    /\ \A k \in 1..5 : ~ReadSucceeded(heard[k])
    /\ results = EmptyDict


-----------------------------------------------------------------------------
(* The video player processes *)

\* start_video() called between two statements of run(), by whoever holds
\* the service
StartVideoCall ==
    /\ svc_pc # "exited"
    /\ launches < MaxLaunches
    /\ StartVideo
    /\ UNCHANGED <<svc_pc, running, now, start_time, relay_pins, shutdowns>>
    /\ UNCHANGED <<thrVars, notService>>

\* stop_video() called in the same way
StopVideoCall ==
    /\ svc_pc # "exited"
    /\ StopVideo
    /\ UNCHANGED <<svc_pc, running, now, start_time, relay_pins, shutdowns>>
    /\ UNCHANGED <<thrVars, notService>>

NextVideo ==
    \/ NextService
    \/ StartVideoCall
    \/ StopVideoCall

\* One run of the service with start_video and stop_video also called from
\* outside run()
SpecVideo == InitService /\ [][NextVideo]_vars

\* A step that starts a player starts it with no player of the service
\* running; the step of the main loop that starts one has seen the previous
\* one exited
LaunchesWhenNoneRuns ==
    /\ (launches' > launches) =>
            (player_process # "alive" /\ alive_players = 0)
    /\ (launches' > launches /\ svc_pc = "video_check" /\ svc_pc' = "time_check") =>
            (player_process = "exited")

\* C39: at most one player process started by the service is alive at any
\* time, and it is the one self.player_process holds; a player is started
\* only when none started before is still running, and by the main loop only
\* after the previous one has exited
C39_OnePlayer ==
    /\ [](/\ alive_players <= 1
          /\ alive_players = 1 <=> player_process = "alive")
    /\ [][LaunchesWhenNoneRuns]_vars

\* C39 witness: the main loop has started a second player after the first
\* one exited
C39_Witness ==
    /\ svc_pc = "time_check"
    /\ launches = 2
    /\ alive_players = 1
    /\ player_process = "alive"
    /\ shutdowns = 0

=============================================================================
